---- MODULE Spec2Model ----
(***************************************************************************)
(* PCR comparator of two MPEG-2 transport stream inputs.                   *)
(*                                                                         *)
(* The model follows ts::PcrComparator (constructor, start, analyzePacket, *)
(* comparePCR, verifyPCRDataInputTimestamp, resetPCRDataList,              *)
(* waitForTermination) and ts::InputExecutor (main, terminateInput).       *)
(* Two executor threads, one per input plugin, receive packets and pass    *)
(* them to analyzePacket, which pushes PCR samples on per-input lists      *)
(* under one mutex and compares the fronts of the two lists.               *)
(***************************************************************************)
EXTENDS Integers, Naturals, Sequences, FiniteSets, TLC

\* ---------------------------------------------------------------------------
\* Bounds of the model.
\* ---------------------------------------------------------------------------

\* Packets a "steady" source delivers before its end of input.
MaxSteady == 12

\* Packets a "varied" source delivers before its end of input.
MaxVaried == 2

\* Size of the packet buffer of an executor (opt.bufferedPackets).
BufferedPackets == 4

\* Maximum number of packets per receive (opt.maxInputPackets).
MaxInputPackets == 2

\* Number of packets of a gapped source.
MaxGapped == 6

\* Number of packets of a timed source.
MaxTimed == 13

\* Number of packets of a late source.
MaxLate == 4

\* Number of packets of a wide source.
MaxWide == 1

\* Largest number of input plugins on the command line.
MaxInputs == 3

\* ---------------------------------------------------------------------------
\* Program constants.
\* ---------------------------------------------------------------------------

\* pcrDataList size above which a one-sided list is dropped.
WaterMark == 10

\* Threshold of the difference between two input time stamps, in ms.
timestampThreshold == 5

\* PCR and time stamp units per second: (90000*300).
TicksPerSecond == 90000 * 300

\* Milliseconds per second, the factor of the conversion to ms.
MsPerSecond == 1000

\* Number of mantissa bits of an IEEE 754 double.
MantissaBits == 53

\* The input time stamp of a metadata without input time stamp
\* (hasInputTimeStamp() is false).
NoTimeStamp == -1

\* The value of pkt.getPCR() on a packet without PCR.
INVALID_PCR == -1

\* Value of the mutex when no thread holds it.
NoThread == -1

\* PcrComparatorArgs::DESIGNATED_INPUT_PLUGIN_NUMBER
DESIGNATED_INPUT_PLUGIN_NUMBER == 2

Inputs == {0, 1}

\* ---------------------------------------------------------------------------
\* Double precision arithmetic, as used by
\*     (double) x / (90000*300) * 1000
\* A double is [m |-> mantissa bits, most significant first, sh |-> k],
\* its value is m / 2^k. Zero has an empty mantissa. A non-zero double
\* has exactly MantissaBits bits, the first of which is 1. An intermediate
\* result is bound by a set constructor, {F(v) : v \in {e}}, where it is to
\* be computed once.
\* ---------------------------------------------------------------------------

\* The w-bit binary representation of n < 2^w.
NatToBitsW(n, w) ==
    CHOOSE r \in {[j \in 1..width |-> (v \div (2 ^ (width - j))) % 2] :
                     v \in {n}, width \in {w}} : TRUE

\* The binary representation of n without leading zeros, n < 2^31.
NatToBits(n) ==
    LET Bits(v) ==
            IF v = 0 THEN <<>>
            ELSE LET w == CHOOSE k \in 1..31 : 2 ^ (k - 1) <= v /\ (k = 31 \/ v < 2 ^ k)
                 IN  NatToBitsW(v, w)
    IN  CHOOSE r \in {Bits(v) : v \in {n}} : TRUE

\* The natural number of the first n bits of b.
RECURSIVE BitsValue(_, _)
BitsValue(b, n) == IF n = 0 THEN 0 ELSE 2 * BitsValue(b, n - 1) + b[n]

\* The natural number of the bit sequence b, of at most 30 bits.
BitsToNat(b) == CHOOSE r \in {BitsValue(v, Len(v)) : v \in {b}} : TRUE

\* b + 1 on a bit sequence; the result is one bit longer when b is all ones.
IncBits(b) ==
    IF \A j \in 1..Len(b) : b[j] = 1
    THEN <<1>> \o [j \in 1..Len(b) |-> 0]
    ELSE CHOOSE r \in
             {[j \in 1..Len(b) |-> IF j < z THEN b[j] ELSE IF j = z THEN 1 ELSE 0] :
                 z \in {CHOOSE j \in 1..Len(b) :
                            b[j] = 0 /\ \A i \in (j + 1)..Len(b) : b[i] = 1}} : TRUE

\* Round to nearest, ties to even: m is the kept mantissa (MantissaBits
\* bits), guard the first dropped bit, sticky TRUE when a later dropped
\* bit is not zero.
RoundNearestEven(m, sh, guard, sticky) ==
    LET Rounded(kept, up) ==
            IF ~up THEN [m |-> kept, sh |-> sh]
            ELSE CHOOSE r \in {IF Len(inc) > Len(kept)
                               THEN [m |-> SubSeq(inc, 1, Len(kept)), sh |-> sh - 1]
                               ELSE [m |-> inc, sh |-> sh] :
                                   inc \in {IncBits(kept)}} : TRUE
    IN  CHOOSE r \in {Rounded(kept, guard = 1 /\ (sticky \/ kept[Len(kept)] = 1)) :
                         kept \in {m}} : TRUE

\* The first 6 * n bits of rem / den after the binary point, 6 bits per
\* step (the remainder is below 2^25, so that 64 times the remainder is
\* below 2^31).
RECURSIVE DivFraction(_, _, _)
DivFraction(rem, den, n) ==
    IF n = 0 THEN <<>>
    ELSE NatToBitsW((rem * 64) \div den, 6)
             \o DivFraction((rem * 64) % den, den, n - 1)

\* The remainder left by DivFraction(rem, den, n).
RECURSIVE DivRemainder(_, _, _)
DivRemainder(rem, den, n) ==
    IF n = 0 THEN rem
    ELSE DivRemainder((rem * 64) % den, den, n - 1)

\* (double) num / den for naturals num < 2^31 and 0 < den < 2^25. The long
\* division runs 14 steps: 84 fraction bits, enough for the mantissa and
\* the rounding bit of any quotient of at least 2^-25.
DoubleDiv(num, den) ==
    IF num = 0 THEN [m |-> <<>>, sh |-> 0]
    ELSE LET whole == NatToBits(num \div den)
             Rounded(all) ==
                 LET first == CHOOSE j \in 1..Len(all) :
                                  all[j] = 1 /\ \A i \in 1..(j - 1) : all[i] = 0
                     last  == first + MantissaBits - 1
                 IN  RoundNearestEven(SubSeq(all, first, last),
                                      last - Len(whole),
                                      all[last + 1],
                                      \/ \E j \in (last + 2)..Len(all) : all[j] = 1
                                      \/ DivRemainder(num % den, den, 14) > 0)
         IN  CHOOSE r \in {Rounded(all) :
                              all \in {whole \o DivFraction(num % den, den, 14)}} : TRUE

\* x * k for a double x and a natural k, 0 < k <= 1000. The mantissa is
\* multiplied 20 bits at a time (2^20 * 1000 is below 2^31).
DoubleMul(x, k) ==
    IF x.m = <<>> THEN x
    ELSE LET lo  == BitsToNat(SubSeq(x.m, MantissaBits - 20 + 1, MantissaBits)) * k
             mid == BitsToNat(SubSeq(x.m, MantissaBits - 40 + 1,
                                     MantissaBits - 20)) * k
                        + lo \div (2 ^ 20)
             hi  == BitsToNat(SubSeq(x.m, 1, MantissaBits - 40)) * k
                        + mid \div (2 ^ 20)
             Rounded(prod) ==
                 LET drop == Len(prod) - MantissaBits
                 IN  IF drop = 0 THEN [m |-> prod, sh |-> x.sh]
                     ELSE RoundNearestEven(SubSeq(prod, 1, MantissaBits),
                                           x.sh - drop,
                                           prod[MantissaBits + 1],
                                           \E j \in (MantissaBits + 2)..Len(prod) :
                                               prod[j] = 1)
         IN  CHOOSE r \in {Rounded(prod) :
                              prod \in {NatToBits(hi) \o NatToBitsW(mid % (2 ^ 20), 20)
                                                      \o NatToBitsW(lo % (2 ^ 20), 20)}} : TRUE

\* x > t for a double x >= 0 and a natural t.
DoubleGreater(x, t) ==
    \E v \in {x} :
        IF v.m = <<>> THEN FALSE
        ELSE LET n == Len(v.m) - v.sh
                 whole == IF n <= 0 THEN 0 ELSE BitsToNat(SubSeq(v.m, 1, n))
                 fraction == \E j \in (IF n <= 0 THEN 1 ELSE n + 1)..Len(v.m) :
                                 v.m[j] = 1
             IN  whole > t \/ (whole = t /\ fraction)

\* (double) ticks / (90000*300) * 1000
TicksToMs(ticks) ==
    CHOOSE r \in {DoubleMul(quotient, MsPerSecond) :
                     quotient \in {DoubleDiv(ticks, TicksPerSecond)}} : TRUE

\* abs() of a signed 64-bit integer, for values far from the 64-bit limits.
abs(x) == IF x < 0 THEN -x ELSE x

\* 64-bit and 32-bit integers at their width: a sequence of 16-bit
\* digits, the most significant first, four for uint64_t and int64_t, two
\* for int; signed values are in two's complement.
Word == 2 ^ 16

\* The borrow into digit k - 1 of the subtraction a - b.
RECURSIVE Borrow(_, _, _)
Borrow(a, b, k) ==
    IF k > Len(a) THEN 0
    ELSE IF a[k] - b[k] - Borrow(a, b, k + 1) < 0 THEN 1 ELSE 0

\* a - b on integers of the same width, modulo 2 ^ width.
Subtract(a, b) ==
    [k \in 1..Len(a) |-> (a[k] - b[k] - Borrow(a, b, k + 1)) % Word]

\* The sign bit of a signed integer.
IsNegative(x) == x[1] >= Word \div 2

\* -x on a signed integer.
Negate(x) == Subtract([k \in 1..Len(x) |-> 0], x)

\* Conversion of an int64_t to int: the 32 low bits.
ToInt(x) == SubSeq(x, Len(x) - 1, Len(x))

\* Conversion of an int to int64_t: sign extension.
FromInt(x) ==
    (IF IsNegative(x) THEN <<Word - 1, Word - 1>> ELSE <<0, 0>>) \o x

\* abs(long): the overload of <cstdlib>, in the global namespace when
\* the build declares it there.
abs_long(x) == IF IsNegative(x) THEN Negate(x) ELSE x

\* int abs(int) of the C library, the one function abs of the global
\* namespace otherwise: the int64_t argument is converted to int.
abs_int(x) ==
    LET j == ToInt(x)
    IN  FromInt(IF IsNegative(j) THEN Negate(j) ELSE j)

\* The functions the unqualified call abs(pcr1 - pcr2) can resolve to:
\* whether <cstdlib> declares its overloads in the global namespace is
\* left to the implementation.
AbsOverloads == {"int", "long"}

\* abs(x) as resolved to the overload.
absResolved(overload, x) == IF overload = "long" THEN abs_long(x) ELSE abs_int(x)

\* INVALID_PCR as the uint64_t that getPCR returns: all bits set.
InvalidPcrWide == [k \in 1..4 |-> Word - 1]

\* ---------------------------------------------------------------------------
\* Inputs of the model.
\* ---------------------------------------------------------------------------

\* Values of the --latency option: the default, and a value for which
\* 27000 * T ticks is a PCR difference of the varied packets.
LatencyValues == {0, 2007}

\* The --latency option is not on the command line.
NoOption == -1

\* The --latency option of the command line: absent, or 2007.
LatencyOptions == {NoOption} \cup (LatencyValues \ {0})

\* The packets of a varied source. A packet is what analyzePacket reads of
\* it: pkt[i].getPCR() and metadata[i].getInputTimeStamp(). The PCRs are
\* 0, 54189000 (2007 ms) and 900 ticks more, the time stamps 0, 135000
\* (5 ms) and 135001.
VariedPackets ==
    { [pcr |-> INVALID_PCR, ts |-> 0],
      [pcr |-> 0,           ts |-> 0],
      [pcr |-> 54189000,    ts |-> 135000],
      [pcr |-> 54189900,    ts |-> 135001] }

\* The k-th packet of a steady source: a PCR every 1000 ticks from 0 on,
\* one time stamp.
SteadyPacket(k) == [pcr |-> 1000 * (k - 1), ts |-> 0]

\* The n-th packet of a gapped source: every other packet has no PCR, the
\* others have the PCR of a steady source in the same order, and a time
\* stamp 5 ms after the one of a steady source.
GappedPacket(n) ==
    IF n % 2 = 1 THEN [pcr |-> INVALID_PCR, ts |-> 135000]
    ELSE [pcr |-> SteadyPacket(n \div 2).pcr, ts |-> 135000]

\* The input time stamps an input plugin can return with a packet, in PCR
\* units, and no time stamp.
SourceTimeStamps == {NoTimeStamp, 0, 135000}

\* Values of the monotonic clock since the start of the executor, in
\* nanoseconds: 1 microsecond, 2 milliseconds.
ClockValues == {1000, 2000000}

\* The metadata of the packets a receive can return: from 1 to
\* MaxInputPackets packets, each with or without input time stamp.
ReceivedMetadata ==
    UNION {[1..n -> SourceTimeStamps] : n \in 1..MaxInputPackets}

\* The k-th packet of a timed source: a PCR every 1000 ticks and an input
\* time stamp every 135001 ticks, more than 5 ms after the one before.
TimedPacket(k) == [pcr |-> 1000 * (k - 1), ts |-> 135001 * (k - 1)]

\* The n-th packet of a late source: a packet without PCR, then a PCR
\* with a time stamp more than 5 ms away from every time stamp of a
\* timed source, then the packets of a timed source from its second one
\* on. Its k-th PCR has the time stamp of the k-th PCR of a timed source,
\* but for the first.
LatePacket(n) ==
    IF n = 1 THEN [pcr |-> INVALID_PCR, ts |-> 0]
    ELSE IF n = 2 THEN [pcr |-> 0, ts |-> 135001 * (MaxTimed + 1)]
    ELSE TimedPacket(n - 1)

\* PCR values over the 42 bits of a PCR: 0, 1000, 2^32 + 1000, 2^42 - 1.
WidePcrs ==
    { <<0, 0, 0, 0>>, <<0, 0, 0, 1000>>, <<0, 1, 0, 1000>>,
      <<0, 1023, Word - 1, Word - 1>> }

\* The packets of a wide source: no PCR, or a PCR of WidePcrs as a
\* uint64_t, one time stamp.
WidePackets == {[pcr |-> w, ts |-> 0] : w \in WidePcrs \cup {InvalidPcrWide}}

SourceKinds == {"steady", "varied", "broken", "gapped", "timed", "late", "wide"}

\* Number of packets a source of kind k delivers in total: a broken source
\* has no packet.
SourceLength(k) ==
    IF k = "steady" THEN MaxSteady
    ELSE IF k = "gapped" THEN MaxGapped
    ELSE IF k = "timed" THEN MaxTimed
    ELSE IF k = "late" THEN MaxLate
    ELSE IF k = "wide" THEN MaxWide
    ELSE IF k = "varied" THEN MaxVaried ELSE 0

\* The numbers of packets receive can return when at most n packets fit and
\* are left: a steady source fills the receive area, a varied source
\* returns any number of packets, zero (the end of an input session)
\* included.
ReceiveCounts(k, n) ==
    IF k = "steady" THEN {n}
    ELSE IF k \in {"gapped", "timed", "late", "wide"} THEN (IF n = 0 THEN {0} ELSE 1..n)
    ELSE 0..n

\* The results _input->start() can have for a source of kind k: the
\* start of an input session of a broken source fails.
StartResults(k) == IF k = "broken" THEN {FALSE} ELSE {TRUE}

\* The packets a source of kind k can deliver as its n-th packet.
SourcePackets(k, n) ==
    IF k = "steady" THEN {SteadyPacket(n)}
    ELSE IF k = "gapped" THEN {GappedPacket(n)}
    ELSE IF k = "timed" THEN {TimedPacket(n)}
    ELSE IF k = "late" THEN {LatePacket(n)}
    ELSE IF k = "wide" THEN WidePackets
    ELSE VariedPackets

\* ---------------------------------------------------------------------------
\* State.
\* ---------------------------------------------------------------------------

VARIABLES
    inputCount,         \* PcrComparatorArgs::inputs.size()
    created,            \* _inputs.size() and _pcrs.size() after the constructor loop
    latencyOption,      \* the value of --latency on the command line, or NoOption
    latency_threshold,  \* PcrComparator::_latency_threshold
    optionsOk,          \* result of plugin()->getOptions() of the inputs
    fileOk,             \* FALSE when the output file cannot be opened
    threadOk,           \* threadOk[i]: result of _inputs[i]->start()
    kind,               \* kind[i]: the kind of source of input i
    sess,               \* position of the thread that constructs PcrComparator
    success,            \* PcrComparator::_success
    pc,                 \* pc[i]: position of executor thread i
    terminate,          \* InputExecutor::_terminate
    outFirst,           \* InputExecutor::_outFirst
    outCount,           \* InputExecutor::_outCount
    inFirst,            \* inFirst of InputExecutor::main
    inCount,            \* inCount of InputExecutor::main
    executorMutex,      \* InputExecutor::_mutex: i when thread i holds it
    metadata,           \* metadata[i]: input time stamps of the receive area
    current,            \* current[i]: Monotonic(true) - _start_time, in ns
    idx,                \* idx[i]: loop index i of analyzePacket
    delivered,          \* delivered[i]: packets source i returned so far
    mutex,              \* PcrComparator::_mutex: the holder, or NoThread
    pcrs,               \* PcrComparator::_pcrs
    output_file,        \* lines written to *_output_file
    pushes,             \* history: pushes[i] counts the push_back of input i
    resets,             \* history: number of calls of resetPCRDataList
    discarded           \* history: PCR data of input i that resets cleared

vars == <<inputCount, created, latencyOption, latency_threshold, optionsOk, fileOk, threadOk, kind, sess, success,
          pc, terminate, outFirst, outCount, inFirst, inCount, executorMutex, idx,
          delivered, mutex, pcrs, output_file, pushes, resets, discarded, metadata, current>>

\* The time stamps of the receive area, as the input plugin returned them
\* or as main filled them, and the clock they are filled from.
stamps == <<metadata, current>>

\* What the program is given: the command line, the behaviour of the
\* plugins and of the system, the metadata the plugins return.
config == <<inputCount, latencyOption, optionsOk, fileOk, threadOk, kind, stamps>>
session == <<sess, success, created, latency_threshold>>
ring == <<outFirst, outCount, inFirst, inCount, executorMutex>>
core == <<mutex, pcrs, output_file, pushes, resets, discarded>>

Min(a, b) == IF a < b THEN a ELSE b

\* The lines of the output that are comparison records.
Records == SelectSeq(output_file, LAMBDA l : l.kind = "record")

\* ---------------------------------------------------------------------------
\* PcrComparator: comparison of the PCR lists.
\* ---------------------------------------------------------------------------

\* verifyPCRDataInputTimestamp that never finds the PCR data out of sync.
verifyTimestampNever(data1, data2) == FALSE

\* verifyPCRDataInputTimestamp with a threshold of 10 ms instead of 5 ms:
\* fronts 135001 ticks apart are compared.
verifyTimestampTenMs(data1, data2) ==
    DoubleGreater(TicksToMs(abs(data1[2] - data2[2])), 2 * timestampThreshold)

\* TRUE when the two PCR data are not from the same time interval.
verifyPCRDataInputTimestamp(data1, data2) ==
    LET timestamp1 == data1[2]
        timestamp2 == data2[2]
        timestampDiffInMs == TicksToMs(abs(timestamp1 - timestamp2))
    IN  DoubleGreater(timestampDiffInMs, timestampThreshold)

\* reachLatencyThreshold = pcrDelta >= 0 && latency <= _latency_threshold
reachLatencyThreshold(pcrDelta, threshold) ==
    pcrDelta >= 0 /\ ~DoubleGreater(TicksToMs(pcrDelta), threshold)

\* RecordLine with the two PCR columns exchanged.
RecordLineExchanged(pcrData1, pcrData2, threshold, trigger) ==
    [kind     |-> "record",
     pcr1     |-> pcrData2[1],
     pcr2     |-> pcrData1[1],
     pcrDelta |-> abs(pcrData1[1] - pcrData2[1]),
     latency  |-> TicksToMs(abs(pcrData1[1] - pcrData2[1])),
     sync     |-> reachLatencyThreshold(abs(pcrData1[1] - pcrData2[1]), threshold),
     open     |-> TRUE,
     mixed    |-> FALSE,
     trigger  |-> trigger]

\* The fields comparePCR writes for the PCR data at the front of the lists.
\* trigger is a history field: the number of the push_back that led to
\* the record.
RecordLine(pcrData1, pcrData2, threshold, trigger) ==
    LET pcr1 == pcrData1[1]
        pcr2 == pcrData2[1]
        pcrDelta == abs(pcr1 - pcr2)
    IN  [kind     |-> "record",
         pcr1     |-> pcr1,
         pcr2     |-> pcr2,
         pcrDelta |-> pcrDelta,
         latency  |-> TicksToMs(pcrDelta),
         sync     |-> reachLatencyThreshold(pcrDelta, threshold),
         open     |-> TRUE,
         mixed    |-> FALSE,
         trigger  |-> trigger]

\* The PCR columns of a record with the integers at their width: pcr1,
\* pcr2 as int64_t, pcrDelta = abs(pcr1 - pcr2) with abs as the build
\* resolves it. The columns computed from pcrDelta are left out.
WideRecordLine(pcrData1, pcrData2, overload, trigger) ==
    LET pcr1 == pcrData1[1]
        pcr2 == pcrData2[1]
    IN  [kind     |-> "record",
         pcr1     |-> pcr1,
         pcr2     |-> pcr2,
         pcrDelta |-> absResolved(overload, Subtract(pcr1, pcr2)),
         open     |-> TRUE,
         mixed    |-> FALSE,
         trigger  |-> trigger]

HeaderLine ==
    [kind |-> "header", open |-> FALSE, mixed |-> FALSE]

\* Characters sent to the stream while its last line is not yet ended by
\* std::endl land in that line.
WriteFields(out, line) ==
    IF out # <<>> /\ out[Len(out)].open
    THEN [out EXCEPT ![Len(out)].mixed = TRUE]
    ELSE Append(out, line)

\* A record without std::endl: the last line stays open.
WriteNoEndl(out) == out

\* std::endl ends the last line.
WriteEndl(out) ==
    IF out = <<>> THEN out ELSE [out EXCEPT ![Len(out)].open = FALSE]

\* resetPCRDataList that clears the first list only.
resetFirstList(lists) ==
    [i \in DOMAIN lists |-> IF i = 0 THEN <<>> ELSE lists[i]]

\* resetPCRDataList: clear every PCR data list.
resetPCRDataList(lists) == [i \in DOMAIN lists |-> <<>>]

\* listTooLarge that is true from 10 elements on (>= instead of >).
listTooLargeAtTen(list1, list2) ==
    Len(list1) >= WaterMark \/ Len(list2) >= WaterMark

\* listTooLarge that is true above 11 elements only.
listTooLargeAboveEleven(list1, list2) ==
    Len(list1) > WaterMark + 1 \/ Len(list2) > WaterMark + 1

\* The test of the else-if branch of comparePCR.
listTooLarge(list1, list2) == Len(list1) > WaterMark \/ Len(list2) > WaterMark

\* ---------------------------------------------------------------------------
\* Initial state: the command line is analyzed, nothing is constructed yet.
\* pc[i] = "created" is an executor whose thread has not been started.
\* Input 0 is a steady source, without --latency, or a varied source, with
\* --latency 2007; input 1 is a varied or a broken source.
\* ---------------------------------------------------------------------------

\* The state of the program before loadArgs, whatever the command line is.
Unstarted ==
    /\ created = 0
    /\ latency_threshold = 0
    /\ sess = "load"
    /\ success = FALSE
    /\ pc = [i \in Inputs |-> "created"]
    /\ terminate = [i \in Inputs |-> FALSE]
    /\ outFirst = [i \in Inputs |-> 0]
    /\ outCount = [i \in Inputs |-> 0]
    /\ inFirst = [i \in Inputs |-> 0]
    /\ inCount = [i \in Inputs |-> 0]
    /\ executorMutex = [i \in Inputs |-> NoThread]
    /\ metadata = [i \in Inputs |-> <<>>]
    /\ current = [i \in Inputs |-> 0]
    /\ idx = [i \in Inputs |-> 0]
    /\ delivered = [i \in Inputs |-> 0]
    /\ mutex = NoThread
    /\ pcrs = [i \in Inputs |-> <<>>]
    /\ output_file = <<>>
    /\ pushes = [i \in Inputs |-> 0]
    /\ resets = 0
    /\ discarded = [i \in Inputs |-> 0]

Init ==
    /\ inputCount \in 0..MaxInputs
    /\ latencyOption \in LatencyOptions
    /\ optionsOk \in BOOLEAN
    /\ fileOk \in BOOLEAN
    /\ threadOk \in [Inputs -> BOOLEAN]
    /\ kind \in [Inputs -> SourceKinds]
    /\ kind[0] \in {"steady", "varied"}
    /\ kind[1] \in {"varied", "broken"}
    /\ (latencyOption = NoOption) <=> (kind[0] = "steady")
    /\ Unstarted

\* ---------------------------------------------------------------------------
\* PcrComparator: constructor, start and waitForTermination.
\* ---------------------------------------------------------------------------

\* The check of loadArgs with >= in the place of ==: more input plugins
\* than DESIGNATED_INPUT_PLUGIN_NUMBER are accepted.
inputsAtLeast(n) == n >= DESIGNATED_INPUT_PLUGIN_NUMBER

\* The check of loadArgs on the number of input plugins: no error is
\* reported when there are DESIGNATED_INPUT_PLUGIN_NUMBER of them.
inputsValid(n) == n = DESIGNATED_INPUT_PLUGIN_NUMBER

\* Args::exitOnError: the process ends when an error was reported,
\* otherwise the caller goes on and constructs the PcrComparator.
exitOnError(valid) == IF valid THEN "construct" ELSE "exit"

\* TSPcrDeltaOptions: loadArgs, then exitOnError.
loadArgs ==
    /\ sess = "load"
    /\ sess' = exitOnError(inputsValid(inputCount))
    /\ UNCHANGED <<config, latency_threshold, success, created, pc, terminate, ring, idx,
                   delivered, core>>

\* args.getIntValue(latencyThreshold, u"latency", 0): the value of the
\* option, 0 without the option.
latencyThreshold(option) == IF option = NoOption THEN 0 ELSE option

\* A constructor with the threshold of tspcrdelta::Core: 1 ms, whatever
\* the options are.
construct_one_ms ==
    /\ sess = "construct"
    /\ created' = inputCount
    /\ latency_threshold' = 1
    /\ sess' = "start"
    /\ UNCHANGED <<config, success, pc, terminate, ring, idx, delivered, core>>

\* PcrComparator constructor, up to the call of start:
\* _latency_threshold(args.latencyThreshold), one InputExecutor and one PCR
\* list per input plugin.
construct ==
    /\ sess = "construct"
    /\ created' = inputCount
    /\ latency_threshold' = latencyThreshold(latencyOption)
    /\ sess' = "start"
    /\ UNCHANGED <<config, success, pc, terminate, ring, idx, delivered, core>>

\* start that writes the header before it gets the options and opens the
\* output file.
start_open_header_first ==
    /\ sess = "start"
    /\ output_file' = WriteEndl(WriteFields(output_file, HeaderLine))
    /\ IF optionsOk /\ fileOk
       THEN /\ sess' = "start0"
            /\ UNCHANGED success
       ELSE /\ success' = FALSE
            /\ sess' = "wait0"
    /\ UNCHANGED <<config, latency_threshold, created, pc, terminate, ring, idx, delivered,
                   mutex, pcrs, pushes, resets, discarded>>

\* start, up to the header: get the plugin options, open the output, write
\* the header. A failure returns false to the constructor, which goes on
\* with waitForTermination.
start_open ==
    /\ sess = "start"
    /\ IF optionsOk /\ fileOk
       THEN /\ output_file' = WriteEndl(WriteFields(output_file, HeaderLine))
            /\ sess' = "start0"
            /\ UNCHANGED success
       ELSE /\ success' = FALSE
            /\ sess' = "wait0"
            /\ UNCHANGED output_file
    /\ UNCHANGED <<config, latency_threshold, created, pc, terminate, ring, idx, delivered,
                   mutex, pcrs, pushes, resets, discarded>>

\* start with csvHeader() inside the loop that starts the input threads,
\* after the start of each thread.
start_input_header(i) ==
    /\ sess = (IF i = 0 THEN "start0" ELSE "start1")
    /\ success' = threadOk[i]
    /\ pc' = IF threadOk[i] THEN [pc EXCEPT ![i] = "main"] ELSE pc
    /\ output_file' = WriteEndl(WriteFields(output_file, HeaderLine))
    /\ sess' = (IF i = 0 THEN "start1" ELSE "wait0")
    /\ UNCHANGED <<config, latency_threshold, created, terminate, ring, idx, delivered,
                   mutex, pcrs, pushes, resets, discarded>>

\* start, one iteration of the loop that starts the input threads:
\* _success = _inputs[i]->start(). After the last one start returns _success.
start_input(i) ==
    /\ sess = (IF i = 0 THEN "start0" ELSE "start1")
    /\ success' = threadOk[i]
    /\ pc' = IF threadOk[i] THEN [pc EXCEPT ![i] = "main"] ELSE pc
    /\ sess' = (IF i = 0 THEN "start1" ELSE "wait0")
    /\ UNCHANGED <<config, latency_threshold, created, terminate, ring, idx, delivered, core>>

\* Thread::waitForTermination of executor i can return: the thread was
\* not started or its main has returned.
threadTerminated(i) == pc[i] \in {"created", "stopped"}

\* waitForTermination with a loop that starts at the second executor.
waitForTerminationFromSecond(i) ==
    /\ sess = (IF i = 0 THEN "wait0" ELSE "wait1")
    /\ i >= 1 => threadTerminated(i)
    /\ sess' = (IF i = 0 THEN "wait1" ELSE "done")
    /\ UNCHANGED <<config, latency_threshold, success, created, pc, terminate, ring, idx,
                   delivered, core>>

\* waitForTermination, one iteration: _inputs[i]->waitForTermination()
\* returns when thread i is not running.
waitForTermination(i) ==
    /\ sess = (IF i = 0 THEN "wait0" ELSE "wait1")
    /\ threadTerminated(i)
    /\ sess' = (IF i = 0 THEN "wait1" ELSE "done")
    /\ UNCHANGED <<config, latency_threshold, success, created, pc, terminate, ring, idx,
                   delivered, core>>

\* ---------------------------------------------------------------------------
\* InputExecutor.
\* ---------------------------------------------------------------------------

\* terminateInput: _terminate = true, under the executor mutex.
terminateInput(flags, i) == [flags EXCEPT ![i] = TRUE]

\* A request to stop, from a thread other than the executors, once start
\* has returned: tell all input plugins to terminate, terminateInput() on
\* each of them.
stop ==
    /\ sess \in {"wait0", "wait1"}
    /\ \E i \in Inputs : ~terminate[i]
    /\ \A i \in Inputs : executorMutex[i] = NoThread
    /\ terminate' = terminateInput(terminateInput(terminate, 0), 1)
    /\ UNCHANGED <<config, session, pc, ring, idx, delivered, core>>

\* main, head of the outer loop: start an input session, started is the
\* status of _input->start() and is only logged; exit when termination is
\* requested.
main_session(i) ==
    /\ pc[i] = "main"
    /\ \E started \in StartResults(kind[i]) :
         pc' = [pc EXCEPT ![i] = IF terminate[i] THEN "stopped" ELSE "receive"]
    /\ UNCHANGED <<config, session, terminate, ring, idx, delivered, core>>

\* The loop that drops older packets written as do ... while: packets are
\* dropped once before the test of _outCount.
dropOlderFirst(first, count) ==
    LET freeCount == Min(MaxInputPackets, BufferedPackets - first)
    IN  <<(first + freeCount) % BufferedPackets, count - freeCount>>

\* The loop under the executor mutex that drops older packets while the
\* buffer is full: the values of <<_outFirst, _outCount>> after it.
RECURSIVE dropOlder(_, _)
dropOlder(first, count) ==
    IF count >= BufferedPackets
    THEN LET freeCount == Min(MaxInputPackets, BufferedPackets - first)
         IN  dropOlder((first + freeCount) % BufferedPackets, count - freeCount)
    ELSE <<first, count>>

\* The asserts inside the loop that drops older packets hold in each of
\* its iterations: _outFirst < _buffer.size() and freeCount <= _outCount.
RECURSIVE dropAsserts(_, _)
dropAsserts(first, count) ==
    IF count >= BufferedPackets
    THEN LET freeCount == Min(MaxInputPackets, BufferedPackets - first)
         IN  /\ first < BufferedPackets
             /\ freeCount <= count
             /\ dropAsserts((first + freeCount) % BufferedPackets, count - freeCount)
    ELSE TRUE

\* A receive area limited by the free space and the maximum input size,
\* not by the end of the buffer.
receiveAreaPastEnd(first, count) ==
    <<(first + count) % BufferedPackets,
      Min(MaxInputPackets, BufferedPackets - count)>>

\* The receive area <<inFirst, inCount>> computed from _outFirst and
\* _outCount: it is limited by the end of the buffer and the maximum input
\* size.
receiveArea(first, count) ==
    LET areaFirst == (first + count) % BufferedPackets
    IN  <<areaFirst,
          Min(MaxInputPackets,
              Min(BufferedPackets - count, BufferedPackets - areaFirst))>>

\* main, one iteration of the inner loop up to the end of _input->receive:
\* under the executor mutex free some buffer and compute the receive area
\* [inFirst, inFirst + inCount), reset its metadata, receive. Zero packet
\* is the end of the input session and leads back to the outer loop;
\* otherwise the inCount packets returned are passed to analyzePacket.
main_receive(i) ==
    /\ pc[i] = "receive"
    /\ LET out == dropOlder(outFirst[i], outCount[i])
           area == receiveArea(out[1], out[2])
           first == area[1]
           count == area[2]
       IN  /\ outFirst' = [outFirst EXCEPT ![i] = out[1]]
           /\ outCount' = [outCount EXCEPT ![i] = out[2]]
           /\ inFirst' = [inFirst EXCEPT ![i] = first]
           /\ \E n \in ReceiveCounts(kind[i], Min(count, SourceLength(kind[i]) - delivered[i])) :
                /\ inCount' = [inCount EXCEPT ![i] = n]
                /\ delivered' = [delivered EXCEPT ![i] = @ + n]
                /\ pc' = [pc EXCEPT ![i] = IF n = 0 THEN "main" ELSE "analyze"]
    /\ idx' = [idx EXCEPT ![i] = 0]
    /\ UNCHANGED <<config, session, terminate, executorMutex, core>>

\* main, the same iteration in three steps. First step: GuardCondition
\* lock(_mutex, _todo) at the head of the block takes the executor mutex.
main_lock(i) ==
    /\ pc[i] = "receive"
    /\ executorMutex[i] = NoThread
    /\ executorMutex' = [executorMutex EXCEPT ![i] = i]
    /\ pc' = [pc EXCEPT ![i] = "locked"]
    /\ UNCHANGED <<config, session, terminate, outFirst, outCount, inFirst,
                   inCount, idx, delivered, core>>

\* The sequence under the executor mutex when the lock is declared in the
\* body of the loop: it is still held when the receive area is used.
main_area_no_block(i) ==
    /\ pc[i] = "locked"
    /\ LET out == dropOlder(outFirst[i], outCount[i])
           area == receiveArea(out[1], out[2])
       IN  /\ outFirst' = [outFirst EXCEPT ![i] = out[1]]
           /\ outCount' = [outCount EXCEPT ![i] = out[2]]
           /\ inFirst' = [inFirst EXCEPT ![i] = area[1]]
           /\ inCount' = [inCount EXCEPT ![i] = area[2]]
    /\ pc' = [pc EXCEPT ![i] = "input"]
    /\ UNCHANGED <<config, session, terminate, executorMutex, idx, delivered, core>>

\* Second step, the rest of the block: free some buffer, compute the
\* receive area; the end of the block releases the executor mutex.
main_area(i) ==
    /\ pc[i] = "locked"
    /\ LET out == dropOlder(outFirst[i], outCount[i])
           area == receiveArea(out[1], out[2])
       IN  /\ outFirst' = [outFirst EXCEPT ![i] = out[1]]
           /\ outCount' = [outCount EXCEPT ![i] = out[2]]
           /\ inFirst' = [inFirst EXCEPT ![i] = area[1]]
           /\ inCount' = [inCount EXCEPT ![i] = area[2]]
    /\ executorMutex' = [executorMutex EXCEPT ![i] = NoThread]
    /\ pc' = [pc EXCEPT ![i] = "input"]
    /\ UNCHANGED <<config, session, terminate, idx, delivered, core>>

\* Third step: reset the metadata of the receive area and call
\* _input->receive; the thread is in the call until this step is taken.
main_input(i) ==
    /\ pc[i] = "input"
    /\ \E n \in ReceiveCounts(kind[i], Min(inCount[i], SourceLength(kind[i]) - delivered[i])) :
         /\ inCount' = [inCount EXCEPT ![i] = n]
         /\ delivered' = [delivered EXCEPT ![i] = @ + n]
         /\ pc' = [pc EXCEPT ![i] = IF n = 0 THEN "main" ELSE "analyze"]
    /\ idx' = [idx EXCEPT ![i] = 0]
    /\ UNCHANGED <<config, session, terminate, outFirst, outCount, inFirst,
                   executorMutex, core>>

\* setInputTimeStamp(current, NanoSecPerSec, TimeSource::TSP): the time
\* stamp in PCR units (27 MHz) of a time in nanoseconds.
setInputTimeStamp(time_stamp) == (time_stamp * 27) \div 1000

\* A fill that is decided packet by packet: the packets without input
\* time stamp get the clock, the others keep theirs.
fillEachPacket(meta, clock) ==
    [n \in 1..Len(meta) |->
        IF meta[n] = NoTimeStamp THEN setInputTimeStamp(clock) ELSE meta[n]]

\* Fill input time stamps with monotonic clock if none was provided by
\* the input plugin: only the first returned packet is checked.
fillTimeStamps(meta, clock) ==
    IF meta[1] = NoTimeStamp
    THEN [n \in 1..Len(meta) |-> setInputTimeStamp(clock)]
    ELSE meta

\* main, between the receive and analyzePacket: the input time stamps of
\* the inCount packets received are filled.
main_stamp(i) ==
    /\ pc[i] = "stamp"
    /\ metadata' = [metadata EXCEPT ![i] = fillTimeStamps(@, current[i])]
    /\ pc' = [pc EXCEPT ![i] = "analyze"]
    /\ UNCHANGED <<inputCount, latencyOption, optionsOk, fileOk, threadOk, kind,
                   current, session, terminate, ring, idx, delivered, core>>

\* ---------------------------------------------------------------------------
\* PcrComparator::analyzePacket, called by executor thread i, one packet
\* per iteration. The content of a received packet is chosen where it is
\* first read: the buffer is private to the executor thread. The packet
\* read is the (idx + 1)-th of the inCount packets of the last receive.
\* ---------------------------------------------------------------------------

\* analyzePacket that reads the packets of a batch from the last one to
\* the first one.
CurrentPacketsReversed(i) ==
    SourcePackets(kind[i], delivered[i] - idx[i])

\* The packets pkt[idx] can be.
CurrentPackets(i) ==
    SourcePackets(kind[i], delivered[i] - inCount[i] + idx[i] + 1)

\* A loop of analyzePacket that is abandoned when termination is requested.
AfterPacketCancelled(i) ==
    IF terminate[i] THEN "stopped"
    ELSE IF idx[i] + 1 < inCount[i] THEN "analyze" ELSE "receive"

\* A loop of analyzePacket that returns after its first packet.
AfterPacketOnce(i) == "receive"

\* Position of thread i after the iteration idx[i] of the loop.
AfterPacket(i) == IF idx[i] + 1 < inCount[i] THEN "analyze" ELSE "receive"

\* analyzePacket without the lock: the guard never waits.
canLockAlways(i) == TRUE

\* The guard of GuardMutex lock(_mutex): the mutex is free.
canLock(i) == mutex = NoThread

\* analyzePacket without the test of the PCR: the PCR data of a packet
\* without PCR are pushed and compared like the others.
analyze_skip_pushes(i) ==
    /\ pc[i] = "analyze"
    /\ canLock(i)
    /\ \E pkt \in CurrentPackets(i) :
         /\ pkt.pcr = INVALID_PCR
         /\ pcrs' = [pcrs EXCEPT ![i] = Append(@, <<pkt.pcr, pkt.ts>>)]
    /\ mutex' = i
    /\ pushes' = [pushes EXCEPT ![i] = @ + 1]
    /\ pc' = [pc EXCEPT ![i] = "compare"]
    /\ UNCHANGED <<config, session, terminate, ring, idx, delivered,
                   output_file, resets, discarded>>

\* An iteration on a packet without PCR: lock, read the PCR, unlock.
analyze_skip(i) ==
    /\ pc[i] = "analyze"
    /\ canLock(i)
    /\ \E pkt \in CurrentPackets(i) : pkt.pcr = INVALID_PCR
    /\ idx' = [idx EXCEPT ![i] = @ + 1]
    /\ pc' = [pc EXCEPT ![i] = AfterPacket(i)]
    /\ UNCHANGED <<config, session, terminate, ring, delivered, core>>

\* analyzePacket with push_front in the place of push_back.
analyze_push_front(i) ==
    /\ pc[i] = "analyze"
    /\ canLock(i)
    /\ \E pkt \in CurrentPackets(i) :
         /\ pkt.pcr # INVALID_PCR
         /\ pcrs' = [pcrs EXCEPT ![i] = <<<<pkt.pcr, pkt.ts>>>> \o @]
    /\ mutex' = i
    /\ pushes' = [pushes EXCEPT ![i] = @ + 1]
    /\ pc' = [pc EXCEPT ![i] = "compare"]
    /\ UNCHANGED <<config, session, terminate, ring, idx, delivered,
                   output_file, resets, discarded>>

\* An iteration on a packet with a PCR, up to the push: lock, read the PCR
\* and the input time stamp, push_back {pcr, timestamp}.
analyze_push(i) ==
    /\ pc[i] = "analyze"
    /\ canLock(i)
    /\ \E pkt \in CurrentPackets(i) :
         /\ pkt.pcr # INVALID_PCR
         /\ pcrs' = [pcrs EXCEPT ![i] = Append(@, <<pkt.pcr, pkt.ts>>)]
    /\ mutex' = i
    /\ pushes' = [pushes EXCEPT ![i] = @ + 1]
    /\ pc' = [pc EXCEPT ![i] = "compare"]
    /\ UNCHANGED <<config, session, terminate, ring, idx, delivered,
                   output_file, resets, discarded>>

\* comparePCR, called after the push. When the record is written the step
\* ends after its fields; in the other cases comparePCR returns and the
\* iteration ends: the guard releases the mutex.
comparePCR(i) ==
    /\ pc[i] = "compare"
    /\ LET pcrDataList1 == pcrs[0]
           pcrDataList2 == pcrs[1]
           return == /\ mutex' = NoThread
                     /\ idx' = [idx EXCEPT ![i] = @ + 1]
                     /\ pc' = [pc EXCEPT ![i] = AfterPacket(i)]
       IN  IF Len(pcrDataList1) > 0 /\ Len(pcrDataList2) > 0
           THEN IF verifyPCRDataInputTimestamp(Head(pcrDataList1), Head(pcrDataList2))
                THEN /\ pcrs' = resetPCRDataList(pcrs)
                     /\ resets' = resets + 1
                     /\ discarded' = [j \in Inputs |-> discarded[j] + Len(pcrs[j])]
                     /\ return
                     /\ UNCHANGED output_file
                ELSE /\ output_file' = WriteFields(output_file,
                            RecordLine(Head(pcrDataList1), Head(pcrDataList2),
                                       latency_threshold, pushes[0] + pushes[1]))
                     /\ pc' = [pc EXCEPT ![i] = "endl"]
                     /\ UNCHANGED <<pcrs, resets, discarded, mutex, idx>>
           ELSE IF listTooLarge(pcrDataList1, pcrDataList2)
                THEN /\ pcrs' = resetPCRDataList(pcrs)
                     /\ resets' = resets + 1
                     /\ discarded' = [j \in Inputs |-> discarded[j] + Len(pcrs[j])]
                     /\ return
                     /\ UNCHANGED output_file
                ELSE /\ return
                     /\ UNCHANGED <<pcrs, resets, discarded, output_file>>
    /\ UNCHANGED <<config, session, terminate, ring, delivered, pushes>>

\* The end of the record with the pop_front of the second list only.
compare_endl_second(i) ==
    /\ pc[i] = "endl"
    /\ output_file' = WriteEndl(output_file)
    /\ pcrs' = [pcrs EXCEPT ![1] = Tail(@)]
    /\ mutex' = NoThread
    /\ idx' = [idx EXCEPT ![i] = @ + 1]
    /\ pc' = [pc EXCEPT ![i] = IF idx[i] + 1 < inCount[i] THEN "analyze" ELSE "receive"]
    /\ UNCHANGED <<config, session, terminate, ring, delivered, pushes, resets, discarded>>

\* The end of the record without the pop_front of the two lists.
compare_endl_keep(i) ==
    /\ pc[i] = "endl"
    /\ output_file' = WriteEndl(output_file)
    /\ mutex' = NoThread
    /\ idx' = [idx EXCEPT ![i] = @ + 1]
    /\ pc' = [pc EXCEPT ![i] = IF idx[i] + 1 < inCount[i] THEN "analyze" ELSE "receive"]
    /\ UNCHANGED <<config, session, terminate, ring, delivered, pcrs, pushes, resets, discarded>>

\* The end of the record when the lock of analyzePacket is declared before
\* the loop: the mutex is kept until the last packet of the batch.
compare_endl_batch(i) ==
    /\ pc[i] = "endl"
    /\ output_file' = WriteEndl(output_file)
    /\ pcrs' = [j \in Inputs |-> Tail(pcrs[j])]
    /\ mutex' = (IF idx[i] + 1 < inCount[i] THEN i ELSE NoThread)
    /\ idx' = [idx EXCEPT ![i] = @ + 1]
    /\ pc' = [pc EXCEPT ![i] = AfterPacket(i)]
    /\ UNCHANGED <<config, session, terminate, ring, delivered, pushes, resets, discarded>>

\* The end of the record by a thread that leaves analyzePacket without
\* the release of the mutex.
compare_endl_locked(i) ==
    /\ pc[i] = "endl"
    /\ output_file' = WriteEndl(output_file)
    /\ pcrs' = [j \in Inputs |-> Tail(pcrs[j])]
    /\ idx' = [idx EXCEPT ![i] = @ + 1]
    /\ pc' = [pc EXCEPT ![i] = AfterPacket(i)]
    /\ UNCHANGED <<config, session, terminate, ring, delivered, mutex, pushes, resets, discarded>>

\* comparePCR, end of the record: std::endl, then pop_front of both lists;
\* comparePCR returns and the iteration ends: the guard releases the mutex.
compare_endl(i) ==
    /\ pc[i] = "endl"
    /\ output_file' = WriteEndl(output_file)
    /\ pcrs' = [j \in Inputs |-> Tail(pcrs[j])]
    /\ mutex' = NoThread
    /\ idx' = [idx EXCEPT ![i] = @ + 1]
    /\ pc' = [pc EXCEPT ![i] = AfterPacket(i)]
    /\ UNCHANGED <<config, session, terminate, ring, delivered, pushes, resets, discarded>>

\* analyzePacket and comparePCR on the packets of a wide source, with the
\* PCRs at their width. An iteration on a packet without PCR.
wide_skip(i) ==
    /\ pc[i] = "analyze"
    /\ canLock(i)
    /\ \E pkt \in CurrentPackets(i) : pkt.pcr = InvalidPcrWide
    /\ idx' = [idx EXCEPT ![i] = @ + 1]
    /\ pc' = [pc EXCEPT ![i] = AfterPacket(i)]
    /\ UNCHANGED <<config, session, terminate, ring, delivered, core>>

\* An iteration on a packet with a PCR, up to the push.
wide_push(i) ==
    /\ pc[i] = "analyze"
    /\ canLock(i)
    /\ \E pkt \in CurrentPackets(i) :
         /\ pkt.pcr # InvalidPcrWide
         /\ pcrs' = [pcrs EXCEPT ![i] = Append(@, <<pkt.pcr, pkt.ts>>)]
    /\ mutex' = i
    /\ pushes' = [pushes EXCEPT ![i] = @ + 1]
    /\ pc' = [pc EXCEPT ![i] = "compare"]
    /\ UNCHANGED <<config, session, terminate, ring, idx, delivered,
                   output_file, resets, discarded>>

\* comparePCR, called after the push.
wide_comparePCR(i) ==
    /\ pc[i] = "compare"
    /\ LET pcrDataList1 == pcrs[0]
           pcrDataList2 == pcrs[1]
           return == /\ mutex' = NoThread
                     /\ idx' = [idx EXCEPT ![i] = @ + 1]
                     /\ pc' = [pc EXCEPT ![i] = AfterPacket(i)]
       IN  IF Len(pcrDataList1) > 0 /\ Len(pcrDataList2) > 0
           THEN IF verifyPCRDataInputTimestamp(Head(pcrDataList1), Head(pcrDataList2))
                THEN /\ pcrs' = resetPCRDataList(pcrs)
                     /\ resets' = resets + 1
                     /\ discarded' = [j \in Inputs |-> discarded[j] + Len(pcrs[j])]
                     /\ return
                     /\ UNCHANGED output_file
                ELSE /\ \E overload \in AbsOverloads :
                            output_file' = WriteFields(output_file,
                                WideRecordLine(Head(pcrDataList1), Head(pcrDataList2),
                                               overload, pushes[0] + pushes[1]))
                     /\ pc' = [pc EXCEPT ![i] = "endl"]
                     /\ UNCHANGED <<pcrs, resets, discarded, mutex, idx>>
           ELSE IF listTooLarge(pcrDataList1, pcrDataList2)
                THEN /\ pcrs' = resetPCRDataList(pcrs)
                     /\ resets' = resets + 1
                     /\ discarded' = [j \in Inputs |-> discarded[j] + Len(pcrs[j])]
                     /\ return
                     /\ UNCHANGED output_file
                ELSE /\ return
                     /\ UNCHANGED <<pcrs, resets, discarded, output_file>>
    /\ UNCHANGED <<config, session, terminate, ring, delivered, pushes>>

\* ---------------------------------------------------------------------------
\* Specification.
\* ---------------------------------------------------------------------------

ExecutorStep(i) ==
    \/ main_session(i)
    \/ main_receive(i)
    \/ analyze_skip(i)
    \/ analyze_push(i)
    \/ comparePCR(i)
    \/ compare_endl(i)

Next ==
    \/ loadArgs
    \/ construct
    \/ start_open
    \/ \E i \in Inputs : start_input(i)
    \/ \E i \in Inputs : waitForTermination(i)
    \/ stop
    \/ \E i \in Inputs : ExecutorStep(i)

Spec == Init /\ [][Next]_vars

\* ---------------------------------------------------------------------------
\* The session of tspcrdelta::Core: PcrComparator::start creates the Core,
\* calls Core::start and, when that fails, destroys the Core; the
\* executors and comparePCR are the same.
\* ---------------------------------------------------------------------------

\* Core constructor: _pcr_delta_threshold_in_ms(1), one InputExecutor and
\* one PCR list per input plugin.
core_construct ==
    /\ sess = "construct"
    /\ created' = inputCount
    /\ latency_threshold' = 1
    /\ sess' = "start"
    /\ UNCHANGED <<config, success, pc, terminate, ring, idx, delivered, core>>

\* Core::start, one iteration of for (i = 0; success && i < size; ++i)
\* success = _inputs[i]->start(): the loop ends at the first failure.
core_start_input(i) ==
    /\ sess = (IF i = 0 THEN "start0" ELSE "start1")
    /\ success' = threadOk[i]
    /\ pc' = IF threadOk[i] THEN [pc EXCEPT ![i] = "main"] ELSE pc
    /\ sess' = (IF ~threadOk[i] THEN "abort" ELSE IF i = 0 THEN "start1" ELSE "wait0")
    /\ UNCHANGED <<config, latency_threshold, created, terminate, ring, idx,
                   delivered, core>>

\* Core::stop(success): for (i = 0; success && i < size; ++i)
\* _inputs[i]->terminateInput().
coreStop(flags, ok) ==
    IF ok THEN terminateInput(terminateInput(flags, 0), 1) ELSE flags

\* Core::start after a failed start of a thread: stop(false), return
\* false; PcrComparator::start then calls internalCleanup.
core_abort ==
    /\ sess = "abort"
    /\ terminate' = coreStop(terminate, FALSE)
    /\ sess' = "cleanup0"
    /\ UNCHANGED <<config, success, created, latency_threshold, pc, ring, idx,
                   delivered, core>>

\* internalCleanup, delete _core: the destructor of Core deletes the
\* executors one by one and the destructor of an executor waits for the
\* termination of its thread. After the last one start returns false.
core_cleanup(i) ==
    /\ sess = (IF i = 0 THEN "cleanup0" ELSE "cleanup1")
    /\ threadTerminated(i)
    /\ sess' = (IF i = 0 THEN "cleanup1" ELSE "done")
    /\ UNCHANGED <<config, success, created, latency_threshold, pc, terminate,
                   ring, idx, delivered, core>>

CoreNext ==
    \/ loadArgs
    \/ core_construct
    \/ start_open
    \/ \E i \in Inputs : core_start_input(i)
    \/ core_abort
    \/ \E i \in Inputs : core_cleanup(i)
    \/ \E i \in Inputs : waitForTermination(i)
    \/ stop
    \/ \E i \in Inputs : ExecutorStep(i)

CoreSpec == Init /\ [][CoreNext]_vars

\* Initial states with a steady source on input 0 and a gapped source on
\* input 1, without --latency: the k-th PCR of the two inputs are equal
\* and the time stamps of the inputs are 5 ms apart.
PairInit ==
    /\ inputCount \in 0..MaxInputs
    /\ latencyOption = NoOption
    /\ optionsOk \in BOOLEAN
    /\ fileOk \in BOOLEAN
    /\ threadOk \in [Inputs -> BOOLEAN]
    /\ kind = [i \in Inputs |-> IF i = 0 THEN "steady" ELSE "gapped"]
    /\ Unstarted

PairSpec == PairInit /\ [][Next]_vars

\* The two executors after a receive that returned packets, before the
\* fill of the input time stamps: any metadata, any clock.
StampInit ==
    /\ inputCount = DESIGNATED_INPUT_PLUGIN_NUMBER
    /\ latencyOption = NoOption
    /\ optionsOk = TRUE
    /\ fileOk = TRUE
    /\ threadOk = [i \in Inputs |-> TRUE]
    /\ kind = [i \in Inputs |-> "varied"]
    /\ metadata \in [Inputs -> ReceivedMetadata]
    /\ current \in [Inputs -> ClockValues]
    /\ created = inputCount
    /\ latency_threshold = latencyThreshold(latencyOption)
    /\ sess = "wait0"
    /\ success = TRUE
    /\ pc = [i \in Inputs |-> "stamp"]
    /\ terminate = [i \in Inputs |-> FALSE]
    /\ outFirst = [i \in Inputs |-> 0]
    /\ outCount = [i \in Inputs |-> 0]
    /\ inFirst = [i \in Inputs |-> 0]
    /\ inCount = [i \in Inputs |-> Len(metadata[i])]
    /\ executorMutex = [i \in Inputs |-> NoThread]
    /\ idx = [i \in Inputs |-> 0]
    /\ delivered = [i \in Inputs |-> Len(metadata[i])]
    /\ mutex = NoThread
    /\ pcrs = [i \in Inputs |-> <<>>]
    /\ output_file = <<HeaderLine>>
    /\ pushes = [i \in Inputs |-> 0]
    /\ resets = 0
    /\ discarded = [i \in Inputs |-> 0]

StampNext == \E i \in Inputs : main_stamp(i)

\* The fill of the input time stamps of one batch per executor.
StampSpec == StampInit /\ [][StampNext]_vars

\* The executor threads with the receive of main in three steps.
LockExecutorStep(i) ==
    \/ main_session(i)
    \/ main_lock(i)
    \/ main_area(i)
    \/ main_input(i)
    \/ analyze_skip(i)
    \/ analyze_push(i)
    \/ comparePCR(i)
    \/ compare_endl(i)

LockNext ==
    \/ loadArgs
    \/ construct
    \/ start_open
    \/ \E i \in Inputs : start_input(i)
    \/ \E i \in Inputs : waitForTermination(i)
    \/ stop
    \/ \E i \in Inputs : LockExecutorStep(i)

\* Initial states in which both sources can end their input session at
\* any time.
FairInit ==
    /\ Init
    /\ inputCount = DESIGNATED_INPUT_PLUGIN_NUMBER
    /\ \A i \in Inputs : kind[i] = "varied"

\* The program on two varied sources.
VariedSpec == FairInit /\ [][Next]_vars

\* The threads are scheduled fairly: a thread that can take a step
\* eventually takes one.
FairSpec ==
    /\ FairInit
    /\ [][Next]_vars
    /\ \A i \in Inputs : WF_vars(ExecutorStep(i))
    /\ WF_vars(loadArgs)
    /\ WF_vars(construct)
    /\ WF_vars(start_open)
    /\ \A i \in Inputs : WF_vars(start_input(i))
    /\ \A i \in Inputs : WF_vars(waitForTermination(i))

\* The program with the locks of the executors, on the sources of
\* PairInit: batches of any size, packets with and without PCR.
LockSpec == PairInit /\ [][LockNext]_vars

\* The program on the sources of PairInit with fair scheduling of the
\* threads.
FairPairSpec ==
    /\ PairInit
    /\ [][Next]_vars
    /\ \A i \in Inputs : WF_vars(ExecutorStep(i))
    /\ WF_vars(loadArgs)
    /\ WF_vars(construct)
    /\ WF_vars(start_open)
    /\ \A i \in Inputs : WF_vars(start_input(i))
    /\ \A i \in Inputs : WF_vars(waitForTermination(i))

\* Initial states with a timed source on input 0 and a late source on
\* input 1, every plugin and thread starting: after the first PCR of each
\* input, the k-th PCR of the two inputs have the same time stamp.
TimedInit ==
    /\ inputCount = DESIGNATED_INPUT_PLUGIN_NUMBER
    /\ latencyOption = NoOption
    /\ optionsOk = TRUE
    /\ fileOk = TRUE
    /\ threadOk = [i \in Inputs |-> TRUE]
    /\ kind = [i \in Inputs |-> IF i = 0 THEN "timed" ELSE "late"]
    /\ Unstarted

\* The program as long as nothing requests its end.
RunNext ==
    \/ loadArgs
    \/ construct
    \/ start_open
    \/ \E i \in Inputs : start_input(i)
    \/ \E i \in Inputs : ExecutorStep(i)

\* The program on a timed and a late source, as long as nothing requests
\* its end.
TimedSpec == TimedInit /\ [][RunNext]_vars

\* Initial states with a wide source on each input.
WideInit ==
    /\ inputCount = DESIGNATED_INPUT_PLUGIN_NUMBER
    /\ latencyOption = NoOption
    /\ optionsOk = TRUE
    /\ fileOk = TRUE
    /\ threadOk = [i \in Inputs |-> TRUE]
    /\ kind = [i \in Inputs |-> "wide"]
    /\ Unstarted

\* The executor threads on wide sources.
WideExecutorStep(i) ==
    \/ main_session(i)
    \/ main_receive(i)
    \/ wide_skip(i)
    \/ wide_push(i)
    \/ wide_comparePCR(i)
    \/ compare_endl(i)

WideNext ==
    \/ loadArgs
    \/ construct
    \/ start_open
    \/ \E i \in Inputs : start_input(i)
    \/ \E i \in Inputs : WideExecutorStep(i)

\* The program on two wide sources, as long as nothing requests its end.
WideSpec == WideInit /\ [][WideNext]_vars

\* The program on a timed and a late source, with fair scheduling of the
\* threads and no request to stop.
FairTimedSpec ==
    /\ TimedInit
    /\ [][RunNext]_vars
    /\ \A i \in Inputs : WF_vars(ExecutorStep(i))
    /\ WF_vars(loadArgs)
    /\ WF_vars(construct)
    /\ WF_vars(start_open)
    /\ \A i \in Inputs : WF_vars(start_input(i))

\* The session of tspcrdelta::Core with fair scheduling of the threads.
FairCoreSpec ==
    /\ FairInit
    /\ [][CoreNext]_vars
    /\ \A i \in Inputs : WF_vars(ExecutorStep(i))
    /\ WF_vars(loadArgs)
    /\ WF_vars(core_construct)
    /\ WF_vars(start_open)
    /\ \A i \in Inputs : WF_vars(core_start_input(i))
    /\ WF_vars(core_abort)
    /\ \A i \in Inputs : WF_vars(core_cleanup(i))
    /\ \A i \in Inputs : WF_vars(waitForTermination(i))

\* ---------------------------------------------------------------------------
\* Properties.
\* ---------------------------------------------------------------------------

\* Thread i leaves position p in the step.
Leaves(i, p) == pc[i] = p /\ pc'[i] # p

\* |a - b|, without abs.
Distance(a, b) == IF a >= b THEN a - b ELSE b - a

\* 5 ms in units of 27 MHz.
AlignTicks == 5 * 27000

\* Both lists are non-empty and the time stamps of their fronts are at
\* most 5 ms apart.
FrontsAligned ==
    /\ pcrs[0] # <<>>
    /\ pcrs[1] # <<>>
    /\ Distance(pcrs[0][1][2], pcrs[1][1][2]) <= AlignTicks

\* Both lists are non-empty and the time stamps of their fronts are more
\* than 5 ms apart.
FrontsMisaligned ==
    /\ pcrs[0] # <<>>
    /\ pcrs[1] # <<>>
    /\ Distance(pcrs[0][1][2], pcrs[1][1][2]) > AlignTicks

\* The step appends one line to the output and changes no earlier line.
OneLineMore ==
    /\ Len(output_file') = Len(output_file) + 1
    /\ SubSeq(output_file', 1, Len(output_file)) = output_file

\* C1: when the comparison that follows a push finds both lists non-empty
\* and the fronts aligned, exactly one record is written, with PCR1 the
\* front of list 0, PCR2 the front of list 1 and PCR Delta = |PCR1 - PCR2|,
\* and then exactly the front of each list is removed, the other samples
\* keeping their order.
C1_AlignedRecord ==
    [][\A i \in Inputs :
        /\ (Leaves(i, "compare") /\ FrontsAligned) =>
              /\ OneLineMore
              /\ LET line == output_file'[Len(output_file')]
                 IN  /\ line.kind = "record"
                     /\ line.pcr1 = pcrs[0][1][1]
                     /\ line.pcr2 = pcrs[1][1][1]
                     /\ line.pcrDelta = Distance(line.pcr1, line.pcr2)
              /\ pcrs' = pcrs
              /\ pc'[i] = "endl"
        /\ Leaves(i, "endl") =>
              /\ Len(output_file') = Len(output_file)
              /\ pcrs[0] # <<>> /\ pcrs[1] # <<>>
              /\ LET line == output_file'[Len(output_file')]
                 IN  /\ line.pcr1 = pcrs[0][1][1]
                     /\ line.pcr2 = pcrs[1][1][1]
                     /\ ~line.open
              /\ \A j \in Inputs : pcrs'[j] = SubSeq(pcrs[j], 2, Len(pcrs[j]))
    ]_vars

\* C1, witness: a record is complete and, its fronts removed, a list still
\* holds several samples.
C1_Witness ==
    /\ Records # <<>>
    /\ ~Records[Len(Records)].open
    /\ mutex = NoThread
    /\ \E j \in Inputs : Len(pcrs[j]) >= 2

C3_SyncIffWithinLatency ==
    \A k \in DOMAIN output_file :
        output_file[k].kind = "record" =>
            (output_file[k].sync <=>
                 output_file[k].pcrDelta <= 27000 * latency_threshold)

\* C4: while the other list is empty, the pushes on a list are kept up to
\* 10 samples; the push that makes 11 empties both lists; no record is
\* written in either case.
C4_Watermark ==
    [][\A i \in Inputs :
        (Leaves(i, "compare") /\ pcrs[1 - i] = <<>>) =>
            /\ output_file' = output_file
            /\ Len(pcrs[i]) <= 10 => pcrs' = pcrs
            /\ Len(pcrs[i]) = 11 => \A j \in Inputs : pcrs'[j] = <<>>
            /\ Len(pcrs[i]) <= 11
    ]_vars

\* C4, witness: input 0 pushed 11 PCRs and input 1 none; no record, both
\* lists empty.
C4_Witness ==
    /\ pushes[0] = 11
    /\ pushes[1] = 0
    /\ mutex = NoThread
    /\ pcrs[0] = <<>> /\ pcrs[1] = <<>>
    /\ Records = <<>>

\* C5: whenever the mutex is not held, each list holds at most 10 samples.
C5_QueueBound ==
    mutex = NoThread => \A i \in Inputs : Len(pcrs[i]) <= 10

\* C5, witness: the mutex is free and a list holds 10 samples.
C5_Witness ==
    /\ mutex = NoThread
    /\ \E i \in Inputs : Len(pcrs[i]) = 10

\* The lines of the output that are records, in the next state.
RecordsNext == SelectSeq(output_file', LAMBDA l : l.kind = "record")

\* C6: the PCR lists and the records of the output change only in steps of
\* the thread that holds the mutex, and the two executors are never both
\* between the lock and the unlock of analyzePacket.
C6_MutualExclusion ==
    /\ [](\A i \in Inputs : pc[i] \in {"compare", "endl"} => mutex = i)
    /\ [](~(pc[0] \in {"compare", "endl"} /\ pc[1] \in {"compare", "endl"}))
    /\ [][(pcrs' # pcrs \/ RecordsNext # Records) =>
            \E i \in Inputs :
                /\ pc'[i] # pc[i]
                /\ \A j \in Inputs \ {i} : pc'[j] = pc[j]
                /\ \/ mutex = i
                   \/ mutex = NoThread /\ mutex' = i
         ]_vars

\* C6, witness: an executor is inside the critical section while the other
\* has a packet to analyze.
C6_Witness ==
    /\ pc[0] = "compare"
    /\ mutex = 0
    /\ pc[1] = "analyze"

\* C7: when no stop is requested, the executors end at the end of their
\* input and waitForTermination returns.
C7_EndOfInputTerminates ==
    <>((\E i \in Inputs : terminate[i]) \/ sess = "done")

\* C8: a comparison leaves the lists unchanged without record, or removes
\* exactly the front of both lists with exactly one record, or empties
\* both lists without record; and no step removes a sample from a list
\* otherwise.
C8_ThreeOutcomes ==
    [][/\ \A i \in Inputs :
            /\ Leaves(i, "compare") =>
                  \/ pcrs' = pcrs /\ output_file' = output_file
                  \/ /\ pcrs' = pcrs /\ OneLineMore /\ pc'[i] = "endl"
                     /\ output_file'[Len(output_file')].open
                  \/ /\ \A j \in Inputs : pcrs'[j] = <<>>
                     /\ output_file' = output_file
            /\ Leaves(i, "endl") =>
                  /\ \A j \in Inputs :
                        pcrs[j] # <<>> /\ pcrs'[j] = SubSeq(pcrs[j], 2, Len(pcrs[j]))
                  /\ Len(output_file') = Len(output_file)
       /\ (\E j \in Inputs : Len(pcrs'[j]) < Len(pcrs[j])) =>
            \/ \A j \in Inputs : pcrs'[j] = <<>>
            \/ \A j \in Inputs :
                  pcrs[j] # <<>> /\ pcrs'[j] = SubSeq(pcrs[j], 2, Len(pcrs[j]))
    ]_vars

\* C8, witness: a reset emptied the lists while a list held several
\* samples, and a record was written.
C8_Witness ==
    /\ resets > 0
    /\ Records # <<>>
    /\ pushes[0] + pushes[1] > 2 * Len(Records) + 1
    /\ pcrs[0] = <<>> /\ pcrs[1] = <<>>

\* C9: no two records come from the same push; the number of records is at
\* most the smaller of the numbers of pushes of the two inputs, and equal to
\* it when no reset occurred and the mutex is free.
C9_RecordsPerPush ==
    LET records == Records
    IN  /\ \A a, b \in DOMAIN records :
              a # b => records[a].trigger # records[b].trigger
        /\ Len(records) <= Min(pushes[0], pushes[1])
        /\ (resets = 0 /\ mutex = NoThread) =>
              Len(records) = Min(pushes[0], pushes[1])

\* C9, witness: two records without reset, and an input that pushed more
\* than the other.
C9_Witness ==
    /\ resets = 0
    /\ mutex = NoThread
    /\ Len(Records) = 2
    /\ pushes[0] > pushes[1]

\* C10: the records are in the output in the order of the pushes that led
\* to them, each is written between the push and the unlock of the same
\* iteration, and no line mixes the output of two threads.
C10_RecordOrder ==
    /\ \A k \in DOMAIN output_file : ~output_file[k].mixed
    /\ \A k \in DOMAIN output_file :
          output_file[k].open =>
              /\ k = Len(output_file)
              /\ output_file[k].kind = "record"
              /\ output_file[k].trigger = pushes[0] + pushes[1]
              /\ mutex \in Inputs
              /\ pc[mutex] = "endl"
    /\ LET records == Records
       IN  /\ \A a, b \in DOMAIN records :
                 a < b => records[a].trigger < records[b].trigger
           /\ \A a \in DOMAIN records :
                 records[a].trigger <= pushes[0] + pushes[1]

\* C10, witness: two complete records, the second one after more pushes
\* than it needed.
C10_Witness ==
    /\ Len(Records) = 2
    /\ ~Records[2].open
    /\ Records[2].trigger > Records[1].trigger + 1

\* The PCR data of input 0 that are in its list, when input 0 is a steady
\* source: the k-th packet delivered has the PCR of SteadyPacket(k) and each packet is
\* pushed, so that the list is the end of the sequence of the PCR delivered
\* so far, in the order of delivery.
SteadyListInOrder ==
    \A j \in 1..Len(pcrs[0]) :
        pcrs[0][j][1] = SteadyPacket(pushes[0] - Len(pcrs[0]) + j).pcr

\* The records of a steady input 0 report its PCR in increasing order, and
\* no PCR of the list is older than a reported one.
SteadyRecordsInOrder ==
    /\ \A a, b \in 1..Len(Records) : a < b => Records[a].pcr1 < Records[b].pcr1
    /\ \A a \in 1..Len(Records) : \A j \in 1..Len(pcrs[0]) :
           Records[a].pcr1 <= pcrs[0][j][1]

\* C11: per-input FIFO. A step changes the list of an input only by
\* appending the PCR data of the packet being analyzed, by removing the
\* front element, or by clearing the list; for a steady source, whose PCR
\* tell the order of delivery, the list holds consecutive PCR in the order
\* of delivery and the records never report two PCR of the input in the
\* reverse order.
C11_PerInputFifo ==
    [][ /\ \A i \in Inputs :
             \/ pcrs'[i] = pcrs[i]
             \/ \E pkt \in CurrentPackets(i) :
                    pcrs'[i] = Append(pcrs[i], <<pkt.pcr, pkt.ts>>)
             \/ pcrs[i] # <<>> /\ pcrs'[i] = Tail(pcrs[i])
             \/ pcrs'[i] = <<>>
        /\ kind[0] = "steady" => (SteadyListInOrder /\ SteadyRecordsInOrder)'
      ]_vars

\* A steady input 0 with two records written and two PCR data waiting.
C11_Witness ==
    /\ kind[0] = "steady"
    /\ Len(Records) >= 2
    /\ Len(pcrs[0]) >= 2

\* Thread i ends the iteration of analyzePacket on its current packet
\* without calling comparePCR.
SkipsPacket(i) ==
    /\ pc[i] = "analyze"
    /\ idx'[i] = idx[i] + 1

\* No PCR data of a list and no record holds INVALID_PCR.
NoInvalidPcr ==
    /\ \A i \in Inputs : \A j \in 1..Len(pcrs[i]) : pcrs[i][j][1] # INVALID_PCR
    /\ \A a \in 1..Len(Records) :
           Records[a].pcr1 # INVALID_PCR /\ Records[a].pcr2 # INVALID_PCR

\* C12: a packet whose PCR is INVALID_PCR is skipped. The iteration of
\* analyzePacket on a packet either pushes PCR data with a valid PCR and
\* goes on with comparePCR, or it ends at once and leaves the lists, the
\* output and the counts of pushes and resets as they are; INVALID_PCR is
\* never in a list or in a record.
C12_InvalidPcrSkipped ==
    [][ /\ \A i \in Inputs :
             /\ SkipsPacket(i) =>
                    /\ UNCHANGED <<pcrs, output_file, pushes, resets, mutex>>
                    /\ pc'[i] # "compare"
             /\ (pc[i] = "analyze" /\ pc'[i] = "compare") =>
                    /\ Len(pcrs'[i]) = Len(pcrs[i]) + 1
                    /\ pcrs'[i][Len(pcrs'[i])][1] # INVALID_PCR
        /\ NoInvalidPcr'
      ]_vars

\* The first packet of a batch of a varied source was skipped: nothing is
\* pushed and only the header is written.
C12_Witness ==
    \E i \in Inputs :
        /\ kind[i] = "varied"
        /\ pc[i] = "analyze"
        /\ idx[i] = 1
        /\ pushes[i] = 0
        /\ pcrs[i] = <<>>
        /\ Len(output_file) = 1

\* C13: if _input->start() fails inside the executor thread, the thread
\* ends: it performs no receive and hands no batch to analyzePacket. A
\* thread whose source fails to start is never at the receive nor inside
\* analyzePacket.
C13_StartFailureEndsThread ==
    \A i \in Inputs :
        StartResults(kind[i]) = {FALSE} =>
            pc[i] \notin {"receive", "analyze", "compare", "endl"}

\* C14: soft cancellation. A step that sets a termination flag changes
\* nothing else. A thread ends only at the head of its outer loop, between
\* two input sessions, and there it ends exactly when its flag is set. A
\* receive that returns packets hands them to analyzePacket whatever the
\* flag is, and the loop of analyzePacket goes through the whole batch
\* and back to the next receive.
C14_SoftCancellation ==
    [][ /\ terminate' # terminate =>
              /\ UNCHANGED <<config, session, pc, ring, idx, delivered, core>>
              /\ \A i \in Inputs : terminate[i] => terminate'[i]
        /\ \A i \in Inputs :
              /\ (pc'[i] = "stopped" /\ pc[i] # "stopped") =>
                     pc[i] = "main" /\ terminate[i]
              /\ (pc[i] = "main" /\ pc'[i] # "main") =>
                     pc'[i] = (IF terminate[i] THEN "stopped" ELSE "receive")
              /\ (pc[i] = "receive" /\ delivered'[i] > delivered[i]) =>
                     pc'[i] = "analyze" /\ idx'[i] = 0
              /\ (pc[i] = "receive" /\ pc'[i] = "main") =>
                     delivered'[i] = delivered[i]
              /\ (pc[i] \in {"analyze", "compare", "endl"} /\ idx'[i] # idx[i]) =>
                     /\ idx'[i] = idx[i] + 1
                     /\ pc'[i] = (IF idx'[i] < inCount[i] THEN "analyze" ELSE "receive")
      ]_vars

\* Termination is requested and a thread is inside comparePCR for the
\* second packet of a batch.
C14_Witness ==
    \E i \in Inputs :
        /\ terminate[i]
        /\ pc[i] = "compare"
        /\ idx[i] >= 1

\* C15: waitForTermination joins every executor. When it has returned no
\* executor thread is running: each one was never started or has left its
\* main, so that no packet is received or analyzed afterwards and no
\* thread holds the mutex of the comparator.
C15_JoinsEveryExecutor ==
    sess = "done" =>
        /\ \A i \in Inputs : pc[i] \in {"created", "stopped"}
        /\ mutex = NoThread

\* waitForTermination has returned after both threads ran, wrote a record
\* and ended.
C15_Witness ==
    /\ sess = "done"
    /\ \A i \in Inputs : pc[i] = "stopped"
    /\ Len(Records) >= 1

\* start has returned to the constructor.
StartReturned == sess \in {"wait0", "wait1", "done"}

\* C16: if the output file cannot be opened or an input plugin rejects its
\* options, start returns false, the header is not written and no input
\* thread is started: the output stays empty, every executor stays as it
\* was created and _success is false, up to the end.
C16_StartFailsEarly ==
    (~optionsOk \/ ~fileOk) =>
        /\ output_file = <<>>
        /\ \A i \in Inputs : pc[i] = "created"
        /\ ~success
        /\ sess \notin {"start0", "start1"}

\* The output file cannot be opened and the constructor is over.
C16_Witness ==
    /\ optionsOk
    /\ ~fileOk
    /\ inputCount = DESIGNATED_INPUT_PLUGIN_NUMBER
    /\ sess = "done"

\* C17: start reports success only if every executor started. Once start
\* has returned, _success is true only when the options were accepted, the
\* output was opened and the thread of every input was started, whichever
\* index fails.
C17_SuccessOnlyIfAllStarted ==
    (StartReturned /\ success) =>
        /\ optionsOk
        /\ fileOk
        /\ \A i \in Inputs : threadOk[i]

\* C18: every configuration that passes loadArgs has exactly
\* DESIGNATED_INPUT_PLUGIN_NUMBER = 2 inputs, and the constructor creates
\* exactly two executors and two PCR lists for it; with any other number
\* of inputs the process ends at the check of the arguments: nothing is
\* constructed, nothing is written and no thread is started.
C18_ExactlyTwoInputs ==
    /\ sess \notin {"load", "exit"} => inputCount = 2
    /\ sess \notin {"load", "exit", "construct"} => created = 2
    /\ inputCount # 2 =>
          /\ sess \in {"load", "exit"}
          /\ created = 0
          /\ output_file = <<>>
          /\ \A i \in Inputs : pc[i] = "created"

\* Two inputs were given, two executors were created and both threads run.
C18_Witness ==
    /\ inputCount = 2
    /\ created = 2
    /\ \A i \in Inputs : pc[i] \notin {"created", "stopped"}

\* The drop of older packets, from any buffer with _outFirst below the
\* capacity and _outCount up to the capacity, ends with _outFirst below
\* the capacity and _outCount from 0 to the capacity.
DropOlderKeepsBounds ==
    \A first \in 0..(BufferedPackets - 1) : \A count \in 0..BufferedPackets :
        LET out == dropOlder(first, count)
        IN  /\ 0 <= out[1] /\ out[1] < BufferedPackets
            /\ 0 <= out[2] /\ out[2] <= BufferedPackets

\* C19: ring-buffer invariant. In every state of every executor
\* 0 <= _outCount <= _buffer.size() and _outFirst < _buffer.size(), and the
\* receive area computed from them lies inside the buffer; the loop that
\* drops older packets never leaves _outCount above the capacity.
C19_RingBufferInvariant ==
    /\ \A i \in Inputs :
          /\ 0 <= outCount[i] /\ outCount[i] <= BufferedPackets
          /\ 0 <= outFirst[i] /\ outFirst[i] < BufferedPackets
          /\ inFirst[i] < BufferedPackets
          /\ inFirst[i] + inCount[i] <= BufferedPackets
    /\ DropOlderKeepsBounds

\* An executor is back at the receive after it received more packets than
\* the buffer holds.
C19_Witness ==
    \E i \in Inputs :
        /\ pc[i] = "receive"
        /\ delivered[i] > BufferedPackets

\* C20: drop-oldest backpressure. The packets an executor receives
\* accumulate in its ring buffer: _outCount counts them until the buffer
\* is full, and a full buffer loses at most MaxInputPackets packets before
\* the next receive, so that _outCount is never less than the smaller of
\* the number of packets received and the capacity minus MaxInputPackets.
C20_DropOldest ==
    \A i \in Inputs :
        outCount[i] >= Min(delivered[i], BufferedPackets - MaxInputPackets)

\* C21: the header is written exactly once, by start, after the output
\* was selected and before any input thread is started, so that it is
\* before every record: the output is empty until start has got the
\* options and opened the output, a thread that was started finds the header
\* written, and the header is the first line and no other line.
C21_HeaderOnceFirst ==
    /\ \A j \in 1..Len(output_file) :
          (output_file[j].kind = "header") <=> (j = 1)
    /\ output_file # <<>> => (optionsOk /\ fileOk)
    /\ sess \in {"load", "exit", "construct", "start"} => output_file = <<>>
    /\ (sess \in {"start0", "start1"} \/ \E i \in Inputs : pc[i] # "created") =>
          Len(output_file) >= 1

\* Two records follow the header.
C21_Witness ==
    /\ Len(output_file) = 3
    /\ output_file[1].kind = "header"
    /\ output_file[3].kind = "record"

RecordsEnded ==
    Len(Records) - (IF output_file # <<>> /\ output_file[Len(output_file)].open
                    THEN 1 ELSE 0)

\* C23: one-sided silence. While an input has pushed nothing there is no
\* record. Every record that is ended takes one PCR data from the list
\* of each input, and the list of an input grows only by a push of that
\* input: in every step, for each input, the records ended in the step
\* are at most the elements its list lost plus the pushes it made. After
\* the last push of an input the records to come are therefore at most
\* the length of its list, and none once a reset has emptied it.
C23_OneSidedSilence ==
    [][ /\ \A i \in Inputs :
              RecordsEnded' - RecordsEnded <=
                  (Len(pcrs[i]) - Len(pcrs'[i])) + (pushes'[i] - pushes[i])
        /\ RecordsEnded' >= RecordsEnded
        /\ (\E i \in Inputs : pushes'[i] = 0) => Records' = <<>>
      ]_vars

\* Input 1 has pushed nothing, input 0 has pushed more than the watermark
\* and its list was reset: there is no record.
C23_Witness ==
    /\ pushes[1] = 0
    /\ pushes[0] > WaterMark
    /\ resets >= 1
    /\ Records = <<>>

\* C24: paired-front matching does not depend on the interleaving. With a
\* steady and a gapped source, whose k-th PCR are equal and whose time
\* stamps are within the alignment threshold, in every interleaving
\* without a reset the k-th record has the k-th PCR of input 0 as PCR1
\* and the k-th PCR of input 1 as PCR2, a PCR delta of 0 and Sync true,
\* and the PCR not yet in a record wait in the lists: there are as many
\* records as the input with fewer pushes has pushed.
C24_PairedFronts ==
    resets = 0 =>
        /\ \A k \in 1..Len(Records) :
              /\ Records[k].pcr1 = SteadyPacket(k).pcr
              /\ Records[k].pcr2 = GappedPacket(2 * k).pcr
              /\ Records[k].pcrDelta = 0
              /\ Records[k].sync
        /\ \A i \in Inputs : RecordsEnded + Len(pcrs[i]) = pushes[i]
        /\ (\A i \in Inputs : pc[i] \notin {"compare", "endl"}) =>
              Len(Records) = Min(pushes[0], pushes[1])

\* Three records without a reset, while input 0 is three pushes ahead.
C24_Witness ==
    /\ kind[1] = "gapped"
    /\ resets = 0
    /\ Len(Records) = 3
    /\ Len(pcrs[0]) = 3

\* Each list holds exactly one PCR data.
OneInEachList == Len(pcrs[0]) = 1 /\ Len(pcrs[1]) = 1

\* C25: time stamp misalignment. When each list holds one PCR data and
\* the comparison after the push finds their time stamps more than 5 ms
\* apart, no record is written and both lists become empty. When later,
\* after that reset, each list again holds one PCR data and their time
\* stamps are at most 5 ms apart, exactly one record is written: one line
\* is added by the comparison, the end of the record adds none and leaves
\* both lists empty.
C25_MisalignedThenAligned ==
    [][\A i \in Inputs :
        /\ (Leaves(i, "compare") /\ OneInEachList /\ FrontsMisaligned) =>
              /\ Records' = Records
              /\ \A j \in Inputs : pcrs'[j] = <<>>
              /\ resets' = resets + 1
              /\ pc'[i] # "endl"
        /\ (Leaves(i, "compare") /\ OneInEachList /\ FrontsAligned /\ resets >= 1) =>
              /\ Len(Records') = Len(Records) + 1
              /\ resets' = resets
              /\ pc'[i] = "endl"
        /\ (Leaves(i, "endl") /\ OneInEachList /\ resets >= 1) =>
              /\ Len(Records') = Len(Records)
              /\ \A j \in Inputs : pcrs'[j] = <<>>
    ]_vars

\* The first PCR data of the two inputs were misaligned and reset, the
\* second ones gave the only record.
C25_Witness ==
    /\ resets = 1
    /\ pushes = [i \in Inputs |-> 2]
    /\ Len(Records) = 1
    /\ Records[1].trigger = 4
    /\ \A j \in Inputs : pcrs[j] = <<>>
    /\ mutex = NoThread

\* C26: when the start of executor k fails in Core::start, every executor
\* started before it is told to terminate: once Core::start has called
\* stop, the termination flag of each input below k is set.
C26_StartedAreTerminated ==
    \A k \in Inputs :
        ( /\ sess \in {"cleanup0", "cleanup1"}
          /\ ~threadOk[k]
          /\ \A i \in Inputs : i < k => threadOk[i] ) =>
            \A i \in Inputs : i < k => terminate[i]

\* C27: a session that fails to start hands control back to the caller in
\* finite time: after a failure in start, of the options, of the output
\* or of the start of a thread, the cleanup ends and start returns.
C27_FailedStartReturns ==
    (sess \in {"abort", "cleanup0"} \/ (sess = "wait0" /\ ~success)) ~> (sess = "done")

\* The receive area computed from <<first, count>> after the drop of older
\* packets is inside the buffer, contiguous, of 1 to MaxInputPackets
\* packets and within the free space, and the asserts of the loop hold.
WindowInside(first, count) ==
    LET out == dropOlder(first, count)
        area == receiveArea(out[1], out[2])
    IN  /\ dropAsserts(first, count)
        /\ area[1] = (out[1] + out[2]) % BufferedPackets
        /\ area[1] < BufferedPackets
        /\ area[1] + area[2] <= BufferedPackets
        /\ 1 <= area[2] /\ area[2] <= MaxInputPackets
        /\ area[2] <= BufferedPackets - out[2]

\* The receive area is inside the buffer from every _outFirst below the
\* capacity and every _outCount up to the capacity.
WindowAlwaysInside ==
    \A first \in 0..(BufferedPackets - 1) : \A count \in 0..BufferedPackets :
        WindowInside(first, count)

\* C28: receive window. For every _outFirst below the capacity and every
\* _outCount up to the capacity, and so for the values every executor has
\* in every reachable state, the receive area starts below the capacity,
\* does not pass the end of the buffer, has from 1 to MaxInputPackets
\* packets and does not overlap the _outCount pending packets; none of the
\* asserts of the loop fails. The packets received lie in that area.
C28_ReceiveWindow ==
    /\ WindowAlwaysInside
    /\ \A i \in Inputs :
          /\ WindowInside(outFirst[i], outCount[i])
          /\ inFirst[i] = receiveArea(outFirst[i], outCount[i])[1]
          /\ inCount[i] <= receiveArea(outFirst[i], outCount[i])[2]

\* A receive has filled the whole receive area.
C28_Witness ==
    \E i \in Inputs :
        /\ pc[i] = "analyze"
        /\ inCount[i] = Min(MaxInputPackets, BufferedPackets)
        /\ delivered[i] > inCount[i]

\* C29: whenever an executor thread is in the receive call of its input
\* plugin, it holds neither the mutex of the comparator nor its own mutex,
\* the one that protects the ring buffer.
C29_ReceiveWithoutLock ==
    \A i \in Inputs :
        pc[i] = "input" => (mutex # i /\ executorMutex[i] # i)

\* A thread is in its receive call after a batch it has pushed a sample
\* of, while the other thread holds the mutex of the comparator.
C29_Witness ==
    \E i \in Inputs :
        /\ pc[i] = "input"
        /\ pushes[i] > 0
        /\ mutex = 1 - i

\* C30: analyzePacket takes and releases the mutex of the comparator once
\* per packet. A thread takes the free mutex at a packet of its batch and
\* pushes one sample; while it holds the mutex it pushes nothing more,
\* stays on the same packet and calls comparePCR once, which at most
\* writes one record; it releases the mutex when it moves to the next
\* packet, so that it never holds it between two packets of a batch.
C30_SectionPerPacket ==
    [][\A i \in Inputs :
         /\ (mutex # i /\ mutex' = i) =>
               /\ mutex = NoThread
               /\ pc[i] = "analyze" /\ pc'[i] = "compare"
               /\ pushes'[i] = pushes[i] + 1
               /\ idx'[i] = idx[i]
         /\ (mutex = i /\ mutex' = i) =>
               /\ pushes'[i] = pushes[i]
               /\ idx'[i] = idx[i]
               /\ pc'[i] # pc[i] => (pc[i] = "compare" /\ pc'[i] = "endl")
               /\ Len(Records') <= Len(Records) + 1
         /\ (mutex = i /\ mutex' # i) =>
               /\ mutex' = NoThread
               /\ pushes'[i] = pushes[i]
               /\ idx'[i] = idx[i] + 1
               /\ pc'[i] \in {"analyze", "receive"}
         /\ idx'[i] # idx[i] => mutex' # i
         /\ pc'[i] = "analyze" => mutex' # i]_vars

\* Between the first and the second packet of a batch of a thread, the
\* other thread has taken the mutex and pushed a sample.
C30_Witness ==
    \E i \in Inputs :
        /\ pc[i] = "analyze"
        /\ idx[i] = 1
        /\ pushes[i] > 0
        /\ mutex = 1 - i
        /\ pc[1 - i] = "compare"
        /\ pushes[1 - i] > 0

\* C31: no deadlock on the mutex of the comparator. With fair scheduling
\* a thread that is at the lock of analyzePacket for the packet k of its
\* batch eventually gets the mutex and goes on with that packet, whether
\* the other thread runs, was never started, or was stopped.
\* (A thread that leaves a packet goes to the next one or out of the
\* loop, so that staying at one packet is staying at the packets of one
\* parity.)
C31_LockEventuallyTaken ==
    \A i \in Inputs : \A parity \in {0, 1} :
        (pc[i] = "analyze" /\ idx[i] % 2 = parity)
            ~> ~(pc[i] = "analyze" /\ idx[i] % 2 = parity)

\* A thread that has pushed before waits for the mutex, which the other
\* thread holds.
C31_Witness ==
    \E i \in Inputs :
        /\ pc[i] = "analyze"
        /\ mutex = 1 - i
        /\ pushes[i] > 0

\* C32: the fill of the input time stamps is decided for the batch on
\* its first packet. If the first packet returned has no input time stamp,
\* every packet of the batch gets the same one, the clock of the executor
\* in PCR units, also the packets that had one; if it has one, the time
\* stamps of the batch are left as they are, also those that are missing.
C32_FillPerBatch ==
    [][\A i \in Inputs :
         (pc[i] = "stamp" /\ pc'[i] # "stamp") =>
            /\ Len(metadata'[i]) = Len(metadata[i])
            /\ metadata[i][1] = NoTimeStamp =>
                  \A n \in 1..Len(metadata[i]) :
                      metadata'[i][n] = (current[i] * 27) \div 1000
            /\ metadata[i][1] # NoTimeStamp => metadata'[i] = metadata[i]]_vars

\* The batch of executor 0 was filled with the clock, 2 ms; the batch of
\* executor 1, whose first packet had a time stamp, has a packet without
\* time stamp after the fill.
C32_Witness ==
    /\ \A i \in Inputs : pc[i] = "analyze"
    /\ Len(metadata[0]) = MaxInputPackets
    /\ \A n \in 1..Len(metadata[0]) : metadata[0][n] = 54000
    /\ metadata[1][1] # NoTimeStamp
    /\ \E n \in 1..Len(metadata[1]) : metadata[1][n] = NoTimeStamp

\* Both lists were reset, the mutex is free, the two inputs have pushed
\* the same number of samples and each of them has more to deliver: the
\* k-th next samples of the two inputs have the same time stamp, and two
\* samples of one input are more than 5 ms apart.
AlignedAfterReset ==
    /\ resets > 0
    /\ mutex = NoThread
    /\ \A i \in Inputs : pcrs[i] = <<>>
    /\ pushes[0] = pushes[1]
    /\ \A i \in Inputs : delivered[i] < SourceLength(kind[i])

\* C33: re-alignment after a reset is live. If after a reset the k-th
\* next samples of the two inputs are within 5 ms of each other, then
\* with fair scheduling a record is eventually written again.
C33_RealignedRecord ==
    AlignedAfterReset ~> (\E i \in Inputs : pc[i] = "endl")

\* C34: whenever the mutex is free at least one of the two lists is
\* empty; so when a comparison finds both lists non-empty the list of the
\* input that has just pushed holds that one sample, and the record that
\* is written, like the fronts a reset would discard, has the sample
\* whose push led to the comparison.
C34_OneListEmpty ==
    /\ mutex = NoThread => \E i \in Inputs : pcrs[i] = <<>>
    /\ \A i \in Inputs :
          (mutex = i /\ pcrs[0] # <<>> /\ pcrs[1] # <<>>) => Len(pcrs[i]) = 1
    /\ \A i \in Inputs :
          pc[i] = "endl" =>
              /\ Len(pcrs[i]) = 1
              /\ pcrs[1 - i] # <<>>
              /\ output_file[Len(output_file)].pcr1 = pcrs[0][1][1]
              /\ output_file[Len(output_file)].pcr2 = pcrs[1][1][1]

\* A record is written for the sample just pushed and the first of two
\* samples of the other input.
C34_Witness ==
    \E i \in Inputs :
        /\ pc[i] = "endl"
        /\ Len(pcrs[1 - i]) >= 2
        /\ resets > 0

\* The records of the output whose line is ended.
EmittedRecords == SelectSeq(output_file, LAMBDA l : l.kind = "record" /\ ~l.open)

\* The PCR of input i in a record.
RecordPcr(line, i) == IF i = 0 THEN line.pcr1 ELSE line.pcr2

\* The k-th sample of a timed or late source has the PCR 1000 * (k - 1):
\* the number of the sample with a PCR.
SampleNumber(pcr) == pcr \div 1000 + 1

\* The numbers of the samples of input i that are in its list.
Queued(i) == {SampleNumber(pcrs[i][j][1]) : j \in 1..Len(pcrs[i])}

\* The numbers of the samples of input i that are in an emitted record.
Reported(i) ==
    LET emitted == EmittedRecords
    IN  {SampleNumber(RecordPcr(emitted[a], i)) : a \in 1..Len(emitted)}

\* C35: sample conservation. Every pushed sample of an input is in the
\* list of the input, or in one emitted record, or it was discarded by a
\* reset, and in one of the three only: the samples in the list and the
\* samples in the records are distinct samples that were pushed, no
\* sample is in two records, and for each input the number of pushes is
\* the number of emitted records plus the number of samples discarded by
\* resets plus the length of the list.
C35_SampleConservation ==
    LET emitted == EmittedRecords
    IN  \A i \in Inputs :
            LET queued == Queued(i)
                reported == Reported(i)
            IN  /\ pushes[i] = Len(emitted) + discarded[i] + Len(pcrs[i])
                /\ Cardinality(queued) = Len(pcrs[i])
                /\ Cardinality(reported) = Len(emitted)
                /\ queued \cap reported = {}
                /\ queued \cup reported \subseteq 1..pushes[i]
                /\ discarded[i] = Cardinality((1..pushes[i]) \ (queued \cup reported))

\* Samples of the two inputs are in the lists, in records and discarded
\* by a reset on misaligned time stamps and by a reset on a long list.
C35_Witness ==
    /\ resets >= 2
    /\ Len(EmittedRecords) >= 1
    /\ \E i \in Inputs : discarded[i] > WaterMark /\ discarded[1 - i] = 1
    /\ \E i \in Inputs : pcrs[i] # <<>>

\* The difference of the input time stamps of the PCR data at the front
\* of the two lists, in PCR ticks.
FrontStampDifference == abs(pcrs[0][1][2] - pcrs[1][1][2])

\* C36: a record pairs two samples whose input time stamps are at most
\* 5 ms, that is 135000 ticks, apart. A line of the output that is a
\* record not yet ended is the record a thread is writing in comparePCR,
\* its PCRs are the ones at the front of the two lists, and the time
\* stamps at the front of the two lists differ by 135000 ticks at most.
C36_RecordsAligned ==
    /\ \A k \in 1..Len(output_file) :
          (output_file[k].kind = "record" /\ output_file[k].open) =>
              /\ k = Len(output_file)
              /\ \E i \in Inputs : pc[i] = "endl"
    /\ \A i \in Inputs :
          pc[i] = "endl" =>
              /\ output_file[Len(output_file)].kind = "record"
              /\ output_file[Len(output_file)].open
              /\ output_file[Len(output_file)].pcr1 = pcrs[0][1][1]
              /\ output_file[Len(output_file)].pcr2 = pcrs[1][1][1]
              /\ FrontStampDifference * MsPerSecond
                     <= timestampThreshold * TicksPerSecond

\* After a reset, a record is written for two samples whose time stamps
\* are 135000 ticks apart.
C36_Witness ==
    /\ resets > 0
    /\ \E i \in Inputs : pc[i] = "endl"
    /\ pcrs[0] # <<>>
    /\ pcrs[1] # <<>>
    /\ FrontStampDifference * MsPerSecond = timestampThreshold * TicksPerSecond

\* pcrList.push_back({pcr, timestamp}) on the list of input i.
push_back(lists, i, data) == [lists EXCEPT ![i] = Append(@, data)]

\* comparePCR as a function of the lists and of the output: the lists and
\* the output when it returns. The history field of the record is left
\* at 0.
comparePCRResult(lists, out) ==
    LET pcrDataList1 == lists[0]
        pcrDataList2 == lists[1]
    IN  IF Len(pcrDataList1) > 0 /\ Len(pcrDataList2) > 0
        THEN IF verifyPCRDataInputTimestamp(Head(pcrDataList1), Head(pcrDataList2))
             THEN [lists |-> resetPCRDataList(lists), out |-> out]
             ELSE [lists |-> [j \in Inputs |-> Tail(lists[j])],
                   out   |-> WriteEndl(WriteFields(out,
                                 RecordLine(Head(pcrDataList1), Head(pcrDataList2),
                                            latency_threshold, 0)))]
        ELSE IF listTooLarge(pcrDataList1, pcrDataList2)
             THEN [lists |-> resetPCRDataList(lists), out |-> out]
             ELSE [lists |-> lists, out |-> out]

\* One iteration of analyzePacket of input i on a packet with a PCR, from
\* the lock to the unlock: push_back, then comparePCR.
analyzedPacket(state, i, data) ==
    comparePCRResult(push_back(state.lists, i, data), state.out)

\* The PCR data of the packets with a PCR that a varied source delivers.
PcrSamples == {<<pkt.pcr, pkt.ts>> : pkt \in {p \in VariedPackets : p.pcr # INVALID_PCR}}

\* C37: the order in which two simultaneous samples are pushed does not
\* matter. When no thread is in analyzePacket, to push a sample a of
\* input 0 and then a sample b of input 1 with the same input time stamp
\* gives the same records and the same lists as to push b and then a.
C37_OrderIrrelevant ==
    mutex = NoThread =>
        \A a \in PcrSamples : \A b \in PcrSamples :
            a[2] = b[2] =>
                LET state == [lists |-> pcrs, out |-> <<>>]
                IN  analyzedPacket(analyzedPacket(state, 0, a), 1, b)
                      = analyzedPacket(analyzedPacket(state, 1, b), 0, a)

\* Thread i is in analyzePacket: it reads the packet idx[i] of the batch.
InAnalyzePacket(i) == pc[i] \in {"analyze", "compare", "endl"}

\* The batch of thread i is examined up to its last packet.
BatchExamined(i) == idx[i] = inCount[i]

\* C38: a batch is handed over synchronously. A thread that is in
\* analyzePacket reads a packet of the batch inside the buffer; when it
\* is back at the head of the loop every packet of the batch has been
\* examined; the receive area, the number of packets received and the
\* packets delivered change only in a step of the thread itself between
\* the head of the loop and the return of receive, never while it is in
\* analyzePacket; analyzePacket is entered from the return of receive
\* only, at the first packet, and goes on one packet at a time.
C38_BatchSynchronous ==
    [][\A i \in Inputs :
         /\ InAnalyzePacket(i) =>
                /\ idx[i] < inCount[i]
                /\ inFirst[i] + inCount[i] <= BufferedPackets
                /\ UNCHANGED <<inFirst[i], inCount[i], delivered[i]>>
                /\ idx'[i] \in {idx[i], idx[i] + 1}
                /\ ~InAnalyzePacket(i)' => pc'[i] = "receive" /\ BatchExamined(i)'
         /\ ~UNCHANGED <<inFirst[i], inCount[i], delivered[i]>> =>
                pc[i] \in {"locked", "input"}
         /\ pc[i] \in {"receive", "locked"} => BatchExamined(i)
         /\ (~InAnalyzePacket(i) /\ InAnalyzePacket(i)') =>
                /\ pc[i] = "input"
                /\ pc'[i] = "analyze"
                /\ idx'[i] = 0
      ]_vars

\* A thread is about to receive a batch in the area of the batch before,
\* the MaxInputPackets packets of which it has examined and pushed.
C38_Witness ==
    \E i \in Inputs :
        /\ pc[i] = "input"
        /\ idx[i] = MaxInputPackets
        /\ inFirst[i] = 0
        /\ delivered[i] >= MaxInputPackets
        /\ pushes[i] >= MaxInputPackets
        /\ InAnalyzePacket(1 - i)

\* a < b on unsigned integers of the same width.
LessThan(a, b) == Borrow(a, b, 1) = 1

\* The integer |a - b| of two unsigned integers.
PlainDifference(a, b) == IF LessThan(a, b) THEN Subtract(b, a) ELSE Subtract(a, b)

\* x is in [0, 2^42 - 1].
InPcrRange(x) == x[1] = 0 /\ x[2] < 2 ^ 10

====
